---- MODULE Spec2Model ----
(***************************************************************************)
(* Verification model of gr2m/ai-provider-monitor: the specification       *)
(* change-detection pipeline (scripts/check-for-changes.js), the change    *)
(* classifier (scripts/lib/analyze-route-change.js) and the change ledger  *)
(* (scripts/lib/append-changes.js).                                        *)
(*                                                                         *)
(* JavaScript strings are modelled as sequences of one-character strings,  *)
(* so that parsing, lower-casing and concatenation are computed.           *)
(***************************************************************************)
EXTENDS Integers, Sequences, FiniteSets, TLC

VARIABLES
  ledger,        \* changes/**/*.yml on disk: file path -> stored record sequence
  callLog,       \* the arguments of every appendChanges call made so far
  prevLedger,    \* the ledger as it was when the last appendChanges call started
  lastOutcome,   \* how the last appendChanges call ended: "returned" or "threw"
  apiKey,        \* process.env.AI_GATEWAY_API_KEY is set
  genCount,      \* most change records one answer of the generation capability holds
  changedRoutes, \* the items handed to analyzeRouteChange, in submission order
  task,          \* per item: the state of its analyzeRouteChange call
  pc,            \* position of the script's top-level code
  stdout,        \* the results printed with console.log, in order
  specFile,      \* cache/<provider>/<filename>: "absent", "old" or "new"
  specAtStart,   \* specFile as it was when the run started
  routeFiles,    \* cache/<provider>/routes/**/*.json: [relativePath, content] entries
  oldRoutes,     \* the Map read in step 1
  isFirstRun,    \* the flag set in step 2
  attempt,       \* the loop counter of step 3
  fetchLog,      \* the fetch attempts and the waits between them, in order
  response,      \* the document of the last ok response
  next,          \* index in changedRoutes of the item withConcurrency takes next
  promise,       \* per item: state of p = fn(item).then(...)
  executing,     \* the Set `executing` of withConcurrency (item indices)
  race,          \* state of the Promise.race the loop awaits
  results,       \* the array `results` of withConcurrency (item indices)
  args,          \* the arguments of a function that is called on its own
  retval         \* what that call returned

ledgerVars == <<ledger, callLog, prevLedger, lastOutcome>>

analyzeVars == <<apiKey, genCount, changedRoutes, task>>

cacheVars == <<specFile, specAtStart, routeFiles, oldRoutes, isFirstRun>>

fetchVars == <<attempt, fetchLog, response>>

poolVars == <<next, promise, executing, race, results>>

vars == <<ledger, callLog, prevLedger, lastOutcome,
          apiKey, genCount, changedRoutes, task, pc, stdout,
          specFile, specAtStart, routeFiles, oldRoutes, isFirstRun,
          attempt, fetchLog, response, next, promise, executing, race,
          results, args, retval>>

callVars == <<args, retval>>

----------------------------------------------------------------------------
(* Bounds *)

MaxChanges == 2      \* records passed to one appendChanges call
MaxCalls == 2        \* appendChanges calls in one behaviour
MaxGenCount == 2     \* change records returned by one generation call
MaxRoutes == 6       \* routes of the largest specification document
MaxUnits == 2        \* route units of the two unit maps that are compared
MaxItems == 2        \* items of an array and keys of an object in a sample tree

----------------------------------------------------------------------------
(* Strings *)

Lower(c) ==
  CASE c = "G" -> "g" [] c = "E" -> "e" [] c = "T" -> "t"
    [] c = "P" -> "p" [] c = "O" -> "o" [] c = "S" -> "s"
    [] OTHER -> c

RECURSIVE ToLowerCase(_)
ToLowerCase(s) ==
  IF s = <<>> THEN <<>> ELSE <<Lower(Head(s))>> \o ToLowerCase(Tail(s))

\* String.prototype.indexOf for a one-character needle: 0-based, -1 if absent
IndexOf(s, c) ==
  IF \E i \in 1..Len(s) : s[i] = c
  THEN (CHOOSE i \in 1..Len(s) : s[i] = c /\ \A j \in 1..(i - 1) : s[j] # c) - 1
  ELSE -1

\* String.prototype.substring(from, to) with 0 <= from <= to <= length
Substring(s, from, to) == SubSeq(s, from + 1, to)

----------------------------------------------------------------------------
(* JSON trees.  A node is a record with one field, named after its kind:   *)
(*   [null |-> TRUE], [bool |-> b], [str |-> chars],                       *)
(*   [num |-> decimal digits as String(value) prints them],                *)
(*   [arr |-> <<node, ...>>],                                              *)
(*   [obj |-> <<[k |-> key, v |-> node], ...>>] in key order.              *)

Null == [null |-> TRUE]
Bool(b) == [bool |-> b]
Str(chars) == [str |-> chars]
Num(digits) == [num |-> digits]
Arr(items) == [arr |-> items]
Obj(entries) == [obj |-> entries]

\* typeof / Array.isArray
Kind(node) == CHOOSE k \in DOMAIN node : TRUE
Val(node) == node[Kind(node)]

Digits == {"0", "1", "2", "3", "4", "5", "6", "7", "8", "9"}

\* the characters of the model's alphabet that are not \w
NonWordChars == {" ", "-", ":", ".", "+", "/", "[", "]", "?", "=", "{", "}", "#", "$"}

IsWordChar(c) == c \notin NonWordChars

AllDigits(s, from, to) ==
  /\ from >= 1 /\ to <= Len(s)
  /\ \A i \in from..to : s[i] \in Digits

\* length of the run of digits that starts at position i
RECURSIVE DigitRun(_, _)
DigitRun(s, i) ==
  IF i > Len(s) \/ s[i] \notin Digits THEN 0 ELSE 1 + DigitRun(s, i + 1)

\* length of the match of TIMESTAMP_PATTERN = /\b\d{10,13}\b/ at position i, or 0
TimestampMatchAt_NoBoundary(s, i) ==
  LET n == DigitRun(s, i) IN IF n >= 10 THEN (IF n <= 13 THEN n ELSE 13) ELSE 0

TimestampMatchAt(s, i) ==
  LET n == DigitRun(s, i)
  IN IF /\ n >= 10 /\ n <= 13
        /\ (i = 1 \/ ~ IsWordChar(s[i - 1]))
        /\ (i + n > Len(s) \/ ~ IsWordChar(s[i + n]))
     THEN n ELSE 0

\* length of the match of (?:Z|[+-]\d{2}:\d{2}) at position i, or 0
ZoneMatchAt(s, i) ==
  IF i <= Len(s) /\ s[i] = "Z" THEN 1
  ELSE IF /\ i + 5 <= Len(s)
          /\ s[i] \in {"+", "-"}
          /\ AllDigits(s, i + 1, i + 2)
          /\ s[i + 3] = ":"
          /\ AllDigits(s, i + 4, i + 5)
       THEN 6 ELSE 0

\* length of the match of ISO_DATE_PATTERN at position i, or 0
IsoDateMatchAt(s, i) ==
  IF /\ i + 18 <= Len(s)
     /\ AllDigits(s, i, i + 3) /\ s[i + 4] = "-"
     /\ AllDigits(s, i + 5, i + 6) /\ s[i + 7] = "-"
     /\ AllDigits(s, i + 8, i + 9) /\ s[i + 10] = "T"
     /\ AllDigits(s, i + 11, i + 12) /\ s[i + 13] = ":"
     /\ AllDigits(s, i + 14, i + 15) /\ s[i + 16] = ":"
     /\ AllDigits(s, i + 17, i + 18)
  THEN LET fraction == IF /\ i + 22 <= Len(s)
                          /\ s[i + 19] = "."
                          /\ AllDigits(s, i + 20, i + 22)
                          /\ ZoneMatchAt(s, i + 23) > 0
                       THEN 4 ELSE 0
           zone == ZoneMatchAt(s, i + 19 + fraction)
       IN IF zone > 0 THEN 19 + fraction + zone ELSE 0
  ELSE 0

TimestampPlaceholder == <<"[", "T", "I", "M", "E", "S", "T", "A", "M", "P", "]">>
IsoDatePlaceholder == <<"[", "I", "S", "O", "_", "D", "A", "T", "E", "]">>

\* value.replace(TIMESTAMP_PATTERN, "[TIMESTAMP]") from position i on
RECURSIVE ReplaceTimestamps(_, _)
ReplaceTimestamps(s, i) ==
  IF i > Len(s) THEN <<>>
  ELSE LET n == TimestampMatchAt(s, i)
       IN IF n > 0 THEN TimestampPlaceholder \o ReplaceTimestamps(s, i + n)
          ELSE <<s[i]>> \o ReplaceTimestamps(s, i + 1)

\* value.replace(ISO_DATE_PATTERN, "[ISO_DATE]") from position i on
RECURSIVE ReplaceIsoDates(_, _)
ReplaceIsoDates(s, i) ==
  IF i > Len(s) THEN <<>>
  ELSE LET n == IsoDateMatchAt(s, i)
       IN IF n > 0 THEN IsoDatePlaceholder \o ReplaceIsoDates(s, i + n)
          ELSE <<s[i]>> \o ReplaceIsoDates(s, i + 1)

normalizeTimestampsInValue(value) ==
  IF Kind(value) = "str"
  THEN Str(ReplaceIsoDates(ReplaceTimestamps(value.str, 1), 1))
  ELSE IF Kind(value) = "num"
    THEN IF /\ Len(value.num) >= 10 /\ Len(value.num) <= 13
            /\ AllDigits(value.num, 1, Len(value.num))
         THEN Str(TimestampPlaceholder)
         ELSE value
  ELSE value

RECURSIVE normalizeTimestampsInExamples(_, _)
normalizeTimestampsInExamples(obj, inExampleContext) ==
  IF Kind(obj) \notin {"arr", "obj"}
  THEN IF inExampleContext THEN normalizeTimestampsInValue(obj) ELSE obj
  ELSE IF Kind(obj) = "arr"
    THEN Arr([i \in 1..Len(obj.arr) |->
                normalizeTimestampsInExamples(obj.arr[i], inExampleContext)])
  ELSE Obj([i \in 1..Len(obj.obj) |->
         LET key == obj.obj[i].k
             value == obj.obj[i].v
         IN [k |-> key,
             v |-> IF key = "example" \/ key = "examples"
                   THEN IF Kind(value) = "arr"
                        THEN Arr([j \in 1..Len(value.arr) |->
                                    normalizeTimestampsInExamples(value.arr[j], TRUE)])
                        ELSE IF Kind(value) = "obj"
                          THEN normalizeTimestampsInExamples(value, TRUE)
                        ELSE normalizeTimestampsInValue(value)
                   ELSE normalizeTimestampsInExamples(value, inExampleContext)]])

\* File contents.  EmptyContent is the empty string, Json(tree) is the text
\* JSON.stringify(tree, null, 2) + "\n", which JSON.parse reads back as tree.
EmptyContent == [kind |-> "empty"]
Json(tree) == [kind |-> "json", tree |-> tree]

\* truthiness of a content string
NonEmpty(content) == content.kind # "empty"

\* JSON.parse succeeds
Parses(content) == content.kind = "json"

\* the default of the parameter inExampleContext
DefaultContext_Example == TRUE

DefaultContext == FALSE

isIdenticalAfterNormalizingTimestamps(oldJson, newJson) ==
  IF Parses(oldJson) /\ Parses(newJson)
  THEN normalizeTimestampsInExamples(oldJson.tree, DefaultContext)
         = normalizeTimestampsInExamples(newJson.tree, DefaultContext)
  ELSE oldJson = newJson

----------------------------------------------------------------------------
(* Change classifier: analyzeRouteChange *)

Today == <<"2", "0", "2", "6", "-", "0", "2", "-", "1", "9">>

NoError == [kind |-> "none", tier |-> 0]

\* error.message?.includes("exceeds the context window") at lines 268 and 288
ShouldRetry_Always(error) == TRUE

ShouldRetry_Never(error) == FALSE

ShouldRetry(error) == error.kind = "tooLarge"

\* the record returned on the fast path
TimestampRecord_NotDocOnly(route, date) ==
  [route |-> route, date |-> date, note |-> 0, doc_only |-> FALSE,
   breaking |-> FALSE, deprecated |-> FALSE]

TimestampRecord(route, date) ==
  [route |-> route, date |-> date, note |-> 0, doc_only |-> TRUE,
   breaking |-> FALSE, deprecated |-> FALSE]

\* how many records the answer for the i-th item of a run holds: genCount for
\* the first item, then 0, 1, .. genCount again and again
AnswerLength(i) == (i + genCount - 1) % (genCount + 1)

\* result.changes of a successful generation call for item i, which the
\* capability may have given a route and date of its own
GeneratedChanges(i) ==
  [j \in 1..AnswerLength(i) |->
     [route |-> <<"X">>, date |-> <<>>, note |-> 10 * i + j, doc_only |-> FALSE,
      breaking |-> (j = 1), deprecated |-> FALSE]]

\* for (const change of result.changes) { change.route = route; change.date = date }
Stamp(changes, route, date) ==
  [j \in 1..Len(changes) |-> [changes[j] EXCEPT !.route = route, !.date = date]]

\* a generateText call of the given tier that has not settled yet
Pending(tier) == [tier |-> tier, outcome |-> "pending"]

\* the JSON.parse calls made while the prompt of the given tier is built
PromptBuilds(item, tier) ==
  CASE tier = 1 -> TRUE
    [] tier = 2 -> /\ NonEmpty(item.oldContent) => Parses(item.oldContent)
                   /\ NonEmpty(item.newContent) => Parses(item.newContent)
    [] tier = 3 -> IF item.status = "A" THEN Parses(item.newContent)
                   ELSE IF item.status = "D" THEN Parses(item.oldContent)
                   ELSE Parses(item.oldContent) /\ Parses(item.newContent)

\* analyzeRouteChange from its call up to the first await (line 261) or to its
\* return or throw before that
AnalyzeEnter(item) ==
  IF ~ apiKey
  THEN [st |-> "threw", calls |-> <<>>, changes |-> <<>>,
        error |-> [kind |-> "nokey", tier |-> 0]]
  ELSE IF /\ item.status = "M"
          /\ NonEmpty(item.oldContent)
          /\ NonEmpty(item.newContent)
          /\ isIdenticalAfterNormalizingTimestamps(item.oldContent, item.newContent)
    THEN [st |-> "returned", calls |-> <<>>,
          changes |-> <<TimestampRecord(item.route, item.date)>>, error |-> NoError]
  ELSE [st |-> "gen", calls |-> <<Pending(1)>>, changes |-> <<>>, error |-> NoError]

\* analyzeRouteChange from the settling of its pending generateText call up to
\* the next await, or to its return or throw; outcome is "ok" or the error
AnalyzeResume(item, i, t, outcome) ==
  LET n == Len(t.calls)
      tier == t.calls[n].tier
      error == [kind |-> outcome, tier |-> tier]
      settled == [t EXCEPT !.calls[n].outcome = outcome]
  IN IF outcome = "ok"
     THEN [settled EXCEPT !.st = "returned",
                          !.changes = Stamp(GeneratedChanges(i), item.route, item.date)]
     ELSE IF tier < 3 /\ ShouldRetry(error)
       THEN IF PromptBuilds(item, tier + 1)
            THEN [settled EXCEPT !.calls = Append(@, Pending(tier + 1))]
            ELSE [settled EXCEPT !.st = "threw",
                                 !.error = [kind |-> "syntax", tier |-> tier + 1]]
     ELSE [settled EXCEPT !.st = "threw", !.error = error]

GenOutcomes == {"ok", "tooLarge", "other"}

Idle == [st |-> "idle", calls |-> <<>>, changes |-> <<>>, error |-> NoError]

----------------------------------------------------------------------------
(* Change ledger: appendChanges *)

Provider == <<"p">>

StripRoute_KeepRoute(change) == change

\* const { route, ...record } = change
StripRoute(change) == [f \in DOMAIN change \ {"route"} |-> change[f]]

\* !route : the field is missing or is the empty string
RouteMissing(change) == "route" \notin DOMAIN change \/ change.route = <<>>

IsDropped_NoSpaceCheck(change) == RouteMissing(change)

\* the two `continue` branches of the grouping loop: no route, or no space in it
IsDropped(change) == RouteMissing(change) \/ IndexOf(change.route, " ") = -1

\* `changes/${provider}${path}/${method}.yml`
FilePath(provider, route) ==
  LET spaceIndex == IndexOf(route, " ")
      method == ToLowerCase(Substring(route, 0, spaceIndex))
      path == Substring(route, spaceIndex + 1, Len(route))
  IN <<"c", "h", "a", "n", "g", "e", "s", "/">> \o provider \o path
       \o <<"/">> \o method \o <<".", "y", "m", "l">>

\* byRoute after the grouping loop: a Map in insertion order, here a sequence of
\* [filePath, records] entries with pairwise different filePath
RECURSIVE GroupByRoute(_, _, _)
GroupByRoute(provider, changes, byRoute) ==
  IF changes = <<>> THEN byRoute
  ELSE
    LET change == Head(changes)
        rest == Tail(changes)
    IN IF IsDropped(change) THEN GroupByRoute(provider, rest, byRoute)
       ELSE
         LET filePath == FilePath(provider, change.route)
             record == StripRoute(change)
         IN IF \E i \in 1..Len(byRoute) : byRoute[i].filePath = filePath
            THEN GroupByRoute(provider, rest,
                   [i \in 1..Len(byRoute) |->
                      IF byRoute[i].filePath = filePath
                      THEN [byRoute[i] EXCEPT !.records = Append(@, record)]
                      ELSE byRoute[i]])
            ELSE GroupByRoute(provider, rest,
                   Append(byRoute, [filePath |-> filePath, records |-> <<record>>]))

ReadExisting_Absent(files, filePath) == <<>>

\* readFile + yaml.load: a missing file (ENOENT) reads as no records
ReadExisting(files, filePath) ==
  IF filePath \in DOMAIN files THEN files[filePath] ELSE <<>>

WriteMerged_Overwrite(files, filePath, existing, records) ==
  [k \in DOMAIN files \cup {filePath} |->
     IF k = filePath THEN records ELSE files[k]]

WriteMerged_Prepend(files, filePath, existing, records) ==
  [k \in DOMAIN files \cup {filePath} |->
     IF k = filePath THEN records \o existing ELSE files[k]]

\* writeFile(filePath, yaml.dump([...existing, ...records]))
WriteMerged(files, filePath, existing, records) ==
  [k \in DOMAIN files \cup {filePath} |->
     IF k = filePath THEN existing \o records ELSE files[k]]

\* the second loop of appendChanges, run without interleaving; readFile of the
\* faultAt-th file fails with an error other than ENOENT, which is rethrown
\* (faultAt = 0: no such error)
RECURSIVE WriteAll(_, _, _, _)
WriteAll(files, byRoute, i, faultAt) ==
  IF i > Len(byRoute) THEN [files |-> files, outcome |-> "returned"]
  ELSE IF i = faultAt THEN [files |-> files, outcome |-> "threw"]
  ELSE LET e == byRoute[i]
       IN WriteAll(WriteMerged(files, e.filePath,
                               ReadExisting(files, e.filePath), e.records),
                   byRoute, i + 1, faultAt)

\* appendChanges(provider, changes), one whole call
AppendChanges(files, provider, changes, faultAt) ==
  IF Len(changes) = 0 THEN [files |-> files, outcome |-> "returned"]
  ELSE WriteAll(files, GroupByRoute(provider, changes, <<>>), 1, faultAt)

----------------------------------------------------------------------------
(* Inputs of the ledger: change records as passed by a caller *)

RouteGetA == <<"G", "E", "T", " ", "/", "a">>
RouteGetALower == <<"g", "e", "t", " ", "/", "a">>
RoutePostB == <<"P", "O", "S", "T", " ", "/", "b">>
RouteNoSpace == <<"G", "E", "T", "/", "a">>

InputRoutes == {RouteGetA, RouteGetALower, RoutePostB, RouteNoSpace}

\* the record a caller passes as its n-th record overall; `note` stands for
\* the record's payload (date, change, target, flags, note, paths)
ChangeWithRoute(r, n) == [route |-> r, note |-> n]
ChangeWithoutRoute(n) == [note |-> n]

RecordsSoFar == IF callLog = <<>> THEN 0
                ELSE LET F[i \in 0..Len(callLog)] ==
                           IF i = 0 THEN 0 ELSE F[i - 1] + Len(callLog[i].changes)
                     IN F[Len(callLog)]

\* every list of at most MaxChanges records, numbered from n + 1
RECURSIVE ChangeLists(_, _)
ChangeLists(n, len) ==
  IF len = 0 THEN {<<>>}
  ELSE LET shorter == ChangeLists(n, len - 1)
       IN shorter \cup
          { Append(l, c) : l \in { x \in shorter : Len(x) = len - 1 },
                           c \in { ChangeWithRoute(r, n + len) : r \in InputRoutes }
                                   \cup {ChangeWithoutRoute(n + len)} }

LedgerCall(changes, faultAt) ==
  /\ Len(callLog) < MaxCalls
  /\ LET r == AppendChanges(ledger, Provider, changes, faultAt)
     IN /\ ledger' = r.files
        /\ lastOutcome' = r.outcome
  /\ prevLedger' = ledger
  /\ callLog' = Append(callLog, [changes |-> changes, faultAt |-> faultAt])
  /\ UNCHANGED <<callVars, analyzeVars, pc, stdout, cacheVars, fetchVars, poolVars>>

\* the variables of check-for-changes.js, for the scripts that do not use them
NoPipeline ==
  /\ specFile = "absent"
  /\ specAtStart = "absent"
  /\ routeFiles = <<>>
  /\ oldRoutes = <<>>
  /\ isFirstRun = FALSE
  /\ attempt = 0
  /\ fetchLog = <<>>
  /\ response = <<>>
  /\ next = 0
  /\ promise = <<>>
  /\ executing = {}
  /\ race = "none"
  /\ results = <<>>

\* no function has been called on its own
NoCall ==
  /\ args = <<>>
  /\ retval = <<>>

LedgerEmpty ==
  /\ ledger = << >>
  /\ callLog = <<>>
  /\ prevLedger = << >>
  /\ lastOutcome = "none"

LedgerInit ==
  /\ NoCall
  /\ LedgerEmpty
  /\ apiKey = TRUE
  /\ genCount = 0
  /\ changedRoutes = <<>>
  /\ task = <<>>
  /\ pc = "append-changes"
  /\ stdout = <<>>
  /\ NoPipeline

LedgerNext ==
  \E changes \in ChangeLists(RecordsSoFar, MaxChanges) :
    \E faultAt \in 0..Len(GroupByRoute(Provider, changes, <<>>)) :
      LedgerCall(changes, faultAt)

SpecLedger == LedgerInit /\ [][LedgerNext]_vars

----------------------------------------------------------------------------
(* scripts/check-for-changes.js: string helpers *)

Upper(c) ==
  CASE c = "g" -> "G" [] c = "e" -> "E" [] c = "t" -> "T"
    [] c = "p" -> "P" [] c = "o" -> "O" [] c = "s" -> "S"
    [] OTHER -> c

RECURSIVE ToUpperCase(_)
ToUpperCase(s) ==
  IF s = <<>> THEN <<>> ELSE <<Upper(Head(s))>> \o ToUpperCase(Tail(s))

StartsWithAt(s, i, pattern) ==
  /\ i + Len(pattern) - 1 <= Len(s)
  /\ SubSeq(s, i, i + Len(pattern) - 1) = pattern

\* String.prototype.replaceAll from position i on, for a non-empty pattern
RECURSIVE ReplaceAllFrom(_, _, _, _)
ReplaceAllFrom(s, pattern, replacement, i) ==
  IF i > Len(s) THEN <<>>
  ELSE IF StartsWithAt(s, i, pattern)
    THEN replacement \o ReplaceAllFrom(s, pattern, replacement, i + Len(pattern))
  ELSE <<s[i]>> \o ReplaceAllFrom(s, pattern, replacement, i + 1)

ReplaceAll(s, pattern, replacement) == ReplaceAllFrom(s, pattern, replacement, 1)

\* String.prototype.split for a one-character separator
RECURSIVE SplitFrom(_, _, _, _)
SplitFrom(s, sep, i, current) ==
  IF i > Len(s) THEN <<current>>
  ELSE IF s[i] = sep THEN <<current>> \o SplitFrom(s, sep, i + 1, <<>>)
  ELSE SplitFrom(s, sep, i + 1, Append(current, s[i]))

Split(s, sep) == SplitFrom(s, sep, 1, <<>>)

\* Array.prototype.join
RECURSIVE Join(_, _)
Join(parts, sep) ==
  IF parts = <<>> THEN <<>>
  ELSE IF Len(parts) = 1 THEN parts[1]
  ELSE parts[1] \o sep \o Join(Tail(parts), sep)

\* path.basename(file, ext)
Basename(file, ext) ==
  IF Len(file) > Len(ext) /\ SubSeq(file, Len(file) - Len(ext) + 1, Len(file)) = ext
  THEN SubSeq(file, 1, Len(file) - Len(ext))
  ELSE file

QMARK == <<"_", "Q", "M", "A", "R", "K", "_">>
EQ == <<"_", "E", "Q", "_">>
DotJson == <<".", "j", "s", "o", "n">>

\* safePath of step 5
SafePath(path) == ReplaceAll(ReplaceAll(path, <<"?">>, QMARK), <<"=">>, EQ)

\* relativePath of step 5: `${safePath.slice(1)}/${method}.json`
RelativePath(path, method) ==
  SubSeq(SafePath(path), 2, Len(SafePath(path))) \o <<"/">> \o method \o DotJson

deriveRoute(relativePath) ==
  LET all == Split(relativePath, "/")
      methodFile == all[Len(all)]
      parts == SubSeq(all, 1, Len(all) - 1)
      method == ToUpperCase(Basename(methodFile, DotJson))
      routePath == <<"/">> \o ReplaceAll(ReplaceAll(Join(parts, <<"/">>), QMARK, <<"?">>),
                                         EQ, <<"=">>)
  IN method \o <<" ">> \o routePath

----------------------------------------------------------------------------
(* JSON values: keys, typeof, JSON.stringify, property access *)

\* the characters of the keys of the model
KeyChars(key) ==
  CASE key = "0" -> <<"0">> [] key = "1" -> <<"1">> [] key = "2" -> <<"2">>
    [] key = "3" -> <<"3">> [] key = "a" -> <<"a">> [] key = "b" -> <<"b">>
    [] key = "type" -> <<"t", "y", "p", "e">>
    [] key = "example" -> <<"e", "x", "a", "m", "p", "l", "e">>
    [] key = "examples" -> <<"e", "x", "a", "m", "p", "l", "e", "s">>
    [] key = "$ref" -> <<"$", "r", "e", "f">>
    [] key = "components" -> <<"c", "o", "m", "p", "o", "n", "e", "n", "t", "s">>
    [] key = "schemas" -> <<"s", "c", "h", "e", "m", "a", "s">>
    [] key = "schema" -> <<"s", "c", "h", "e", "m", "a">>
    [] key = "A" -> <<"A">> [] key = "B" -> <<"B">>
    [] key = "paths" -> <<"p", "a", "t", "h", "s">>
    [] key = "/v" -> <<"/", "v">>
    [] key = "get" -> <<"g", "e", "t">>
    [] key = "post" -> <<"p", "o", "s", "t">>
    [] key = "/v?a" -> <<"/", "v", "?", "a">>
    [] key = "/v_QMARK_a" -> <<"/", "v", "_", "Q", "M", "A", "R", "K", "_", "a">>
    [] key = "/v=a" -> <<"/", "v", "=", "a">>
    [] key = "x-a" -> <<"x", "-", "a">>

\* the keys of the model
ModelKeys ==
  {"0", "1", "2", "3", "a", "b", "type", "example", "examples", "$ref", "components",
   "schemas", "schema", "A", "B", "paths", "/v", "get", "post",
   "/v?a", "/v_QMARK_a", "/v=a", "x-a"}

\* String(i) for an array index i: the key under which Object.keys and the
\* in operator know the item
IndexKey(i) == CASE i = 0 -> "0" [] i = 1 -> "1" [] i = 2 -> "2" [] i = 3 -> "3"

\* typeof
TypeOf(node) ==
  CASE Kind(node) \in {"null", "arr", "obj"} -> "object"
    [] Kind(node) = "str" -> "string"
    [] Kind(node) = "num" -> "number"
    [] Kind(node) = "bool" -> "boolean"

IsArray(node) == Kind(node) = "arr"

\* String(val) for a boolean
BoolChars(b) == IF b THEN <<"t", "r", "u", "e">> ELSE <<"f", "a", "l", "s", "e">>

NullChars == <<"n", "u", "l", "l">>

\* JSON.stringify(val); the strings of the model hold no character to escape
RECURSIVE Stringify(_), StringifyItems(_, _), StringifyEntries(_, _)
Stringify(node) ==
  CASE Kind(node) = "null" -> NullChars
    [] Kind(node) = "bool" -> BoolChars(node.bool)
    [] Kind(node) = "num" -> node.num
    [] Kind(node) = "str" -> <<"\"">> \o node.str \o <<"\"">>
    [] Kind(node) = "arr" -> <<"[">> \o StringifyItems(node.arr, 1) \o <<"]">>
    [] Kind(node) = "obj" -> <<"{">> \o StringifyEntries(node.obj, 1) \o <<"}">>

StringifyItems(items, i) ==
  IF i > Len(items) THEN <<>>
  ELSE (IF i > 1 THEN <<",">> ELSE <<>>) \o Stringify(items[i])
         \o StringifyItems(items, i + 1)

StringifyEntries(entries, i) ==
  IF i > Len(entries) THEN <<>>
  ELSE (IF i > 1 THEN <<",">> ELSE <<>>)
         \o <<"\"">> \o KeyChars(entries[i].k) \o <<"\"", ":">>
         \o Stringify(entries[i].v) \o StringifyEntries(entries, i + 1)

\* Object.keys(node) of an object or an array
ObjectKeys(node) ==
  IF IsArray(node) THEN [i \in 1..Len(node.arr) |-> IndexKey(i - 1)]
  ELSE [i \in 1..Len(node.obj) |-> node.obj[i].k]

\* key in node, for the keys of the model (none of them is a property that
\* objects or arrays inherit)
KeyIn(key, node) == \E i \in 1..Len(ObjectKeys(node)) : ObjectKeys(node)[i] = key

\* node[key] for a key that is in node
AtKey_First(node, key) == IF IsArray(node) THEN node.arr[1] ELSE node.obj[1].v

AtKey(node, key) ==
  LET i == CHOOSE j \in 1..Len(ObjectKeys(node)) : ObjectKeys(node)[j] = key
  IN IF IsArray(node) THEN node.arr[i] ELSE node.obj[i].v

\* new Set([...a, ...b]) as the sequence of its members in insertion order
RECURSIVE SetOfKeys(_, _)
SetOfKeys(keys, seen) ==
  IF keys = <<>> THEN seen
  ELSE IF \E i \in 1..Len(seen) : seen[i] = Head(keys)
    THEN SetOfKeys(Tail(keys), seen)
  ELSE SetOfKeys(Tail(keys), Append(seen, Head(keys)))

----------------------------------------------------------------------------
(* scripts/check-for-changes.js: Maps, splitting and comparison *)

\* A Map is a sequence of [k, v] entries in insertion order, keys unique.
MapHas(m, key) == \E i \in 1..Len(m) : m[i].k = key

MapGet(m, key) == m[CHOOSE i \in 1..Len(m) : m[i].k = key].v

MapSet(m, key, value) ==
  IF MapHas(m, key)
  THEN [i \in 1..Len(m) |-> IF m[i].k = key THEN [k |-> key, v |-> value] ELSE m[i]]
  ELSE Append(m, [k |-> key, v |-> value])

\* the value of a missing property
Undefined == [undefined |-> TRUE]

\* what a statement yields that throws a TypeError
Thrown == [thrown |-> "TypeError"]

\* a value in a condition
Truthy(node) ==
  CASE Kind(node) \in {"undefined", "null"} -> FALSE
    [] Kind(node) = "bool" -> node.bool
    [] Kind(node) = "num" -> node.num # <<"0">>
    [] Kind(node) = "str" -> node.str # <<>>
    [] OTHER -> TRUE

\* the array index that the characters of part spell, or -1
ArrayIndex(part) ==
  IF \E i \in 0..3 : KeyChars(IndexKey(i)) = part
  THEN CHOOSE i \in 0..3 : KeyChars(IndexKey(i)) = part
  ELSE -1

\* current?.[part] for the characters of a property name; the names of the
\* model are none of the properties that values inherit
Member(current, part) ==
  CASE Kind(current) = "obj" ->
         IF \E i \in 1..Len(current.obj) : KeyChars(current.obj[i].k) = part
         THEN current.obj[CHOOSE i \in 1..Len(current.obj) :
                            KeyChars(current.obj[i].k) = part].v
         ELSE Undefined
    [] Kind(current) = "arr" ->
         IF ArrayIndex(part) >= 0 /\ ArrayIndex(part) < Len(current.arr)
         THEN current.arr[ArrayIndex(part) + 1] ELSE Undefined
    [] Kind(current) = "str" ->
         IF ArrayIndex(part) >= 0 /\ ArrayIndex(part) < Len(current.str)
         THEN Str(<<current.str[ArrayIndex(part) + 1]>>) ELSE Undefined
    [] OTHER -> Undefined

\* String.prototype.replace for a string pattern: the first occurrence only
RECURSIVE ReplaceFirstFrom(_, _, _, _)
ReplaceFirstFrom(s, pattern, replacement, i) ==
  IF i > Len(s) THEN <<>>
  ELSE IF StartsWithAt(s, i, pattern)
    THEN replacement \o SubSeq(s, i + Len(pattern), Len(s))
  ELSE <<s[i]>> \o ReplaceFirstFrom(s, pattern, replacement, i + 1)

ReplaceFirst(s, pattern, replacement) == ReplaceFirstFrom(s, pattern, replacement, 1)

\* refPath.replace("#/", "").split("/")
PartsOf(refPath) == Split(ReplaceFirst(refPath, <<"#", "/">>, <<>>), "/")

RECURSIVE ResolveParts(_, _)
ResolveParts(current, parts) ==
  IF parts = <<>> THEN current
  ELSE LET member == Member(current, Head(parts))
       IN IF member = Undefined THEN Undefined ELSE ResolveParts(member, Tail(parts))

resolveRef(root, refPath) == ResolveParts(root, PartsOf(refPath))

RECURSIVE findRefs(_, _), FindRefsIn(_, _, _)
findRefs_Revisit(obj, found) ==
  IF Kind(obj) = "arr" THEN FindRefsIn(obj.arr, 1, found)
  ELSE IF Kind(obj) = "obj"
    THEN LET ref == Member(obj, KeyChars("$ref"))
             others == SelectSeq(obj.obj, LAMBDA e : e.k # "$ref")
         IN FindRefsIn([i \in 1..Len(others) |-> others[i].v], 1,
                       IF Truthy(ref) /\ Kind(ref) = "str"
                       THEN [visited |-> found.visited \cup {ref.str},
                             queue |-> Append(found.queue, ref.str)]
                       ELSE found)
  ELSE found

\* findRefs of collectRefsTransitively; found is [visited, queue]
findRefs(obj, found) ==
  IF Kind(obj) = "arr" THEN FindRefsIn(obj.arr, 1, found)
  ELSE IF Kind(obj) = "obj"
    THEN LET ref == Member(obj, KeyChars("$ref"))
             others == SelectSeq(obj.obj, LAMBDA e : e.k # "$ref")
         IN FindRefsIn([i \in 1..Len(others) |-> others[i].v], 1,
                       IF Truthy(ref) /\ Kind(ref) = "str" /\ ref.str \notin found.visited
                       THEN [visited |-> found.visited \cup {ref.str},
                             queue |-> Append(found.queue, ref.str)]
                       ELSE found)
  ELSE found

FindRefsIn(items, i, found) ==
  IF i > Len(items) THEN found
  ELSE FindRefsIn(items, i + 1, findRefs(items[i], found))

\* if (resolved)
IsResolved(resolved) == Truthy(resolved)

\* the while loop of collectRefsTransitively
RECURSIVE DrainQueue(_, _, _)
DrainQueue(root, found, refs) ==
  IF found.queue = <<>> THEN refs
  ELSE LET refPath == Head(found.queue)
           rest == [found EXCEPT !.queue = Tail(found.queue)]
           resolved == resolveRef(root, refPath)
       IN IF IsResolved(resolved)
          THEN DrainQueue(root, findRefs(resolved, rest), MapSet(refs, refPath, resolved))
          ELSE DrainQueue(root, rest, refs)

\* the Map of refPath -> resolved value, in insertion order
collectRefsTransitively(root, obj) ==
  DrainQueue(root, findRefs(obj, [visited |-> {}, queue |-> <<>>]), <<>>)

\* the key of the model with the given characters
KeyOf(part) == CHOOSE key \in ModelKeys : KeyChars(key) = part

\* the own properties of an object or an array as [k, v] entries
PropertiesOf(node) ==
  IF IsArray(node) THEN [i \in 1..Len(node.arr) |-> [k |-> IndexKey(i - 1), v |-> node.arr[i]]]
  ELSE node.obj

\* where a new property goes: index keys stand first, in ascending order, the
\* other keys follow in the order of their insertion
RECURSIVE InsertEntry(_, _)
InsertEntry(entries, entry) ==
  IF entries = <<>> THEN <<entry>>
  ELSE IF /\ ArrayIndex(KeyChars(entry.k)) >= 0
          /\ \/ ArrayIndex(KeyChars(Head(entries).k)) < 0
             \/ ArrayIndex(KeyChars(Head(entries).k)) > ArrayIndex(KeyChars(entry.k))
    THEN <<entry>> \o entries
  ELSE <<Head(entries)>> \o InsertEntry(Tail(entries), entry)

\* entries after target[key] = value
AssignEntry(entries, key, value) ==
  IF \E i \in 1..Len(entries) : entries[i].k = key
  THEN [i \in 1..Len(entries) |->
          IF entries[i].k = key THEN [k |-> key, v |-> value] ELSE entries[i]]
  ELSE InsertEntry(entries, [k |-> key, v |-> value])

\* target[part] = value on an object, or on an array at one of its indices
Assign(target, part, value) ==
  IF IsArray(target)
  THEN Arr([i \in 1..Len(target.arr) |->
              IF i = ArrayIndex(part) + 1 THEN value ELSE target.arr[i]])
  ELSE Obj(AssignEntry(target.obj, KeyOf(part), value))

\* the loop body of buildBundledRoute on target: the value of target after
\* the assignments along parts, or Thrown when one of them is made on a string
RECURSIVE SetAlong(_, _, _)
SetAlong(target, parts, value) ==
  IF Kind(target) \notin {"obj", "arr"} THEN Thrown
  ELSE IF Len(parts) = 1 THEN Assign(target, parts[1], value)
  ELSE LET current == Member(target, parts[1])
           child == IF Truthy(current) THEN current ELSE Obj(<<>>)
           below == SetAlong(child, Tail(parts), value)
       IN IF below = Thrown THEN Thrown ELSE Assign(target, parts[1], below)

RECURSIVE GroupRefs(_, _, _)
GroupRefs(refs, i, extra) ==
  IF i > Len(refs) \/ extra = Thrown THEN extra
  ELSE GroupRefs(refs, i + 1, SetAlong(extra, PartsOf(refs[i].k), refs[i].v))

Spread_KeepOriginal(entries, extra, i) ==
  entries \o SelectSeq(extra, LAMBDA e : \A j \in 1..Len(entries) : entries[j].k # e.k)

\* { ...operation, ...extra }
RECURSIVE Spread(_, _, _)
Spread(entries, extra, i) ==
  IF i > Len(extra) THEN entries
  ELSE Spread(AssignEntry(entries, extra[i].k, extra[i].v), extra, i + 1)

buildBundledRoute(operation, fullSpec) ==
  LET refs == collectRefsTransitively(fullSpec, operation)
  IN IF refs = <<>> THEN operation
     ELSE LET extra == GroupRefs(refs, 1, Obj(<<>>))
          IN IF extra = Thrown THEN Thrown
             ELSE Obj(Spread(PropertiesOf(operation), extra.obj, 1))

\* step 5: newRoutes, from the [path, method, operation] entries of schema.paths
RECURSIVE SplitInto(_, _, _)
SplitInto(schema, entries, newRoutes) ==
  IF entries = <<>> THEN newRoutes
  ELSE LET e == Head(entries)
           content == Json(buildBundledRoute(e.operation, schema))
       IN SplitInto(schema, Tail(entries),
                    MapSet(newRoutes, RelativePath(e.path, e.method), content))

NewRoutes(schema) == SplitInto(schema, schema, <<>>)

\* the characters of the model in the order of their code units
ByteOrder ==
  <<"$", "-", "/", "0", "1", "2", "3", "4", "5", "6", "7", "8", "9", "=", "?",
    "A", "B", "C", "D", "E", "F", "G", "H", "I", "J", "K", "L", "M",
    "N", "O", "P", "Q", "R", "S", "T", "U", "V", "W", "X", "Y", "Z", "_",
    "a", "b", "c", "d", "e", "f", "g", "h", "i", "j", "k", "l", "m",
    "n", "o", "p", "q", "r", "s", "t", "u", "v", "w", "x", "y", "z">>

Rank(c) == CHOOSE i \in 1..Len(ByteOrder) : ByteOrder[i] = c

\* s sorts before t
RECURSIVE SortsBefore(_, _)
SortsBefore(s, t) ==
  IF t = <<>> THEN FALSE
  ELSE IF s = <<>> THEN TRUE
  ELSE IF Head(s) # Head(t) THEN Rank(Head(s)) < Rank(Head(t))
  ELSE SortsBefore(Tail(s), Tail(t))

RECURSIVE InsertSorted(_, _)
InsertSorted(sorted, entry) ==
  IF sorted = <<>> THEN <<entry>>
  ELSE IF SortsBefore(KeyChars(entry.k), KeyChars(Head(sorted).k))
    THEN <<entry>> \o sorted
  ELSE <<Head(sorted)>> \o InsertSorted(Tail(sorted), entry)

RECURSIVE SortEntries(_)
SortEntries(entries) ==
  IF entries = <<>> THEN <<>>
  ELSE InsertSorted(SortEntries(Tail(entries)), Head(entries))

\* yq sort_keys(..): the keys of every map of the document in ascending order
RECURSIVE SortKeysDeep(_)
SortKeysDeep(node) ==
  CASE Kind(node) = "arr" -> Arr([i \in 1..Len(node.arr) |-> SortKeysDeep(node.arr[i])])
    [] Kind(node) = "obj" ->
         Obj(SortEntries([i \in 1..Len(node.obj) |->
                            [k |-> node.obj[i].k, v |-> SortKeysDeep(node.obj[i].v)]]))
    [] OTHER -> node

\* step 4 on a document without YAML anchors: explode(.) and prettier leave
\* its tree as it is
SortKeys_Keep(node) == node

SortKeys(node) == SortKeysDeep(node)

\* JSON.parse / yaml.load: the properties of every object in the order in which
\* a JavaScript object keeps them
RECURSIVE ParseEntries(_, _, _), Parse(_)
ParseEntries(entries, i, parsed) ==
  IF i > Len(entries) THEN parsed
  ELSE ParseEntries(entries, i + 1,
                    InsertEntry(parsed, [k |-> entries[i].k, v |-> Parse(entries[i].v)]))

Parse(node) ==
  CASE Kind(node) = "arr" -> Arr([i \in 1..Len(node.arr) |-> Parse(node.arr[i])])
    [] Kind(node) = "obj" -> Obj(ParseEntries(node.obj, 1, <<>>))
    [] OTHER -> node

\* key.startsWith("x-")
IsExtension(key) == StartsWithAt(KeyChars(key), 1, <<"x", "-">>)

RECURSIVE removeXPrefix(_)
removeXPrefix(obj) ==
  CASE Kind(obj) = "arr" -> Arr([i \in 1..Len(obj.arr) |-> removeXPrefix(obj.arr[i])])
    [] Kind(obj) = "obj" ->
         LET kept == SelectSeq(obj.obj, LAMBDA e : ~IsExtension(e.k))
         IN Obj([i \in 1..Len(kept) |-> [k |-> kept[i].k, v |-> removeXPrefix(kept[i].v)]])
    [] OTHER -> obj

\* the two loops of step 5 over Object.entries: [path, method, operation]
RECURSIVE OperationEntries(_, _)
OperationEntries(paths, i) ==
  IF i > Len(paths) THEN <<>>
  ELSE LET operations == PropertiesOf(paths[i].v)
       IN [j \in 1..Len(operations) |->
             [path |-> KeyChars(paths[i].k), method |-> KeyChars(operations[j].k),
              operation |-> operations[j].v]]
          \o OperationEntries(paths, i + 1)

\* if (schema.paths)
PathEntries(schema) ==
  IF Truthy(Member(schema, KeyChars("paths")))
  THEN OperationEntries(PropertiesOf(Member(schema, KeyChars("paths"))), 1)
  ELSE <<>>

\* JSON.stringify(value, null, 2)
Indent(depth) == [i \in 1..(2 * depth) |-> " "]

RECURSIVE StringifyIndented(_, _), ItemsIndented(_, _, _), EntriesIndented(_, _, _)
StringifyIndented(node, depth) ==
  CASE Kind(node) = "arr" /\ node.arr # <<>> ->
         <<"[", "\n">> \o ItemsIndented(node.arr, 1, depth + 1)
           \o <<"\n">> \o Indent(depth) \o <<"]">>
    [] Kind(node) = "obj" /\ node.obj # <<>> ->
         <<"{", "\n">> \o EntriesIndented(node.obj, 1, depth + 1)
           \o <<"\n">> \o Indent(depth) \o <<"}">>
    [] OTHER -> Stringify(node)

ItemsIndented(items, i, depth) ==
  IF i > Len(items) THEN <<>>
  ELSE (IF i > 1 THEN <<",", "\n">> ELSE <<>>) \o Indent(depth)
         \o StringifyIndented(items[i], depth) \o ItemsIndented(items, i + 1, depth)

EntriesIndented(entries, i, depth) ==
  IF i > Len(entries) THEN <<>>
  ELSE (IF i > 1 THEN <<",", "\n">> ELSE <<>>) \o Indent(depth)
         \o <<"\"">> \o KeyChars(entries[i].k) \o <<"\"", ":", " ">>
         \o StringifyIndented(entries[i].v, depth) \o EntriesIndented(entries, i + 1, depth)

\* the text of a route file: JSON.stringify(bundled, null, 2) + "\n"
ContentText(content) == StringifyIndented(content.tree, 0) \o <<"\n">>

\* the files written in step 5, one for each [path, method] in loop order
WrittenFiles(schema) ==
  LET entries == PathEntries(schema)
  IN [i \in 1..Len(entries) |->
        [path |-> entries[i].path, method |-> entries[i].method,
         relativePath |-> RelativePath(entries[i].path, entries[i].method),
         text |-> ContentText(Json(buildBundledRoute(entries[i].operation, schema)))]]

\* oldRoutes.get(relativePath), undefined read as the empty string
OldContent(old, relativePath) ==
  IF MapHas(old, relativePath) THEN MapGet(old, relativePath) ELSE EmptyContent

\* step 7, first loop: additions and modifications in the order of newRoutes
RECURSIVE AddedAndModified(_, _, _)
AddedAndModified(old, new, i) ==
  IF i > Len(new) THEN <<>>
  ELSE LET relativePath == new[i].k
           newContent == new[i].v
           oldContent == OldContent(old, relativePath)
           rest == AddedAndModified(old, new, i + 1)
       IN IF ~ NonEmpty(oldContent)
          THEN <<[relativePath |-> relativePath, status |-> "A",
                  oldContent |-> EmptyContent, newContent |-> newContent]>> \o rest
          ELSE IF oldContent # newContent
               /\ ~ isIdenticalAfterNormalizingTimestamps(oldContent, newContent)
            THEN <<[relativePath |-> relativePath, status |-> "M",
                    oldContent |-> oldContent, newContent |-> newContent]>> \o rest
          ELSE rest

\* step 7, second loop: deletions in the order of oldRoutes
RECURSIVE Deleted(_, _, _)
Deleted(old, new, i) ==
  IF i > Len(old) THEN <<>>
  ELSE IF ~ MapHas(new, old[i].k)
    THEN <<[relativePath |-> old[i].k, status |-> "D",
            oldContent |-> old[i].v, newContent |-> EmptyContent]>>
         \o Deleted(old, new, i + 1)
  ELSE Deleted(old, new, i + 1)

CompareRoutes(old, new) == AddedAndModified(old, new, 1) \o Deleted(old, new, 1)

\* the argument of analyzeRouteChange built by the callback of step 8
AnalyzeArgs(item) ==
  IF "route" \in DOMAIN item THEN item
  ELSE [status |-> item.status, route |-> deriveRoute(item.relativePath),
        date |-> Today, oldContent |-> item.oldContent,
        newContent |-> item.newContent]

----------------------------------------------------------------------------
(* scripts/analyze-route-change.js: one analyzeRouteChange call *)

Chars_integer == <<"i", "n", "t", "e", "g", "e", "r">>
Chars_string == <<"s", "t", "r", "i", "n", "g">>

Seconds1 == <<"1", "7", "1", "1", "4", "7", "1", "5", "3", "3">>
Seconds2 == <<"1", "7", "1", "1", "4", "7", "1", "9", "9", "9">>

\* operation nodes of a route unit
Op(type, example) ==
  Obj(<<[k |-> "example", v |-> example], [k |-> "type", v |-> Str(type)]>>)

OpInt1 == Op(Chars_integer, Num(Seconds1))
OpInt2 == Op(Chars_integer, Num(Seconds2))
OpStr1 == Op(Chars_string, Num(Seconds1))
OpSmall == Op(Chars_integer, Num(<<"4", "2">>))

SampleContents == {Json(OpInt1), Json(OpInt2), Json(OpStr1), Json(OpSmall)}

\* the arguments the script passes: old-file for M and D, new-file for M and A
AnalyzeInputs ==
  { [status |-> "A", route |-> RouteGetA, date |-> Today,
     oldContent |-> EmptyContent, newContent |-> n] : n \in SampleContents }
  \cup
  { [status |-> "D", route |-> RouteGetA, date |-> Today,
     oldContent |-> o, newContent |-> EmptyContent] : o \in SampleContents }
  \cup
  { [status |-> "M", route |-> RouteGetA, date |-> Today,
     oldContent |-> o, newContent |-> n] : o \in SampleContents, n \in SampleContents }

AnalyzeInit ==
  /\ NoCall
  /\ LedgerEmpty
  /\ apiKey \in BOOLEAN
  /\ genCount \in 0..MaxGenCount
  /\ \E item \in AnalyzeInputs : changedRoutes = <<item>>
  /\ task = <<Idle>>
  /\ pc = "analyze"
  /\ stdout = <<>>
  /\ NoPipeline

\* const result = await analyzeRouteChange({...}) : the call is made
CliCall ==
  /\ pc = "analyze"
  /\ task[1].st = "idle"
  /\ task' = [task EXCEPT ![1] = AnalyzeEnter(AnalyzeArgs(changedRoutes[1]))]
  /\ UNCHANGED <<callVars, ledgerVars, apiKey, genCount, changedRoutes, pc, stdout,
                 cacheVars, fetchVars, poolVars>>

\* the pending generateText call of item i settles
GenSettle(i, outcome) ==
  /\ task[i].st = "gen"
  /\ task' = [task EXCEPT ![i] = AnalyzeResume(AnalyzeArgs(changedRoutes[i]), i,
                                             task[i], outcome)]
  /\ UNCHANGED <<callVars, ledgerVars, apiKey, genCount, changedRoutes, pc, stdout,
                 cacheVars, fetchVars, poolVars>>

\* console.log(JSON.stringify(result)), or the rejection ends the script
CliFinish ==
  /\ pc = "analyze"
  /\ task[1].st \in {"returned", "threw"}
  /\ IF task[1].st = "returned"
     THEN /\ stdout' = Append(stdout, [changes |-> task[1].changes])
          /\ pc' = "done"
     ELSE /\ stdout' = stdout
          /\ pc' = "aborted"
  /\ UNCHANGED <<callVars, ledgerVars, analyzeVars, cacheVars, fetchVars, poolVars>>

AnalyzeNext ==
  \/ CliCall
  \/ \E outcome \in GenOutcomes : pc = "analyze" /\ GenSettle(1, outcome)
  \/ CliFinish

SpecAnalyze == AnalyzeInit /\ [][AnalyzeNext]_vars

----------------------------------------------------------------------------
(* scripts/check-for-changes.js: the run *)

Limit == 5

MaxAttempts == 3

\* const delay = attempt === 1 ? 5000 : 30000
Delay(n) == IF n = 1 THEN 5000 ELSE 30000

\* step 2: readFile(specPath) throws
DetectFirstRun_Never(file) == FALSE

DetectFirstRun(file) == file = "absent"

\* if (executing.size >= limit)
RaceNeeded_Above(set, limit) == Cardinality(set) > limit

RaceNeeded(set, limit) == Cardinality(set) >= limit

\* Promise.all(results) is fulfilled
AllFulfilled_Any(promises) == \E i \in DOMAIN promises : promises[i] = "resolved"

AllFulfilled(promises) == \A i \in DOMAIN promises : promises[i] = "resolved"

\* Promise.all(results) or Promise.race(executing) over the given promises is
\* rejected as soon as one of them is
SomeRejected(promises, among) == \E i \in among : promises[i] = "rejected"

Letters == <<"a", "b", "c", "d", "e", "f", "g", "h", "i", "j">>
Get == <<"g", "e", "t">>
Post == <<"p", "o", "s", "t">>

PathOf(i) == <<"/", "v", "/", Letters[i]>>
QueryPath == <<"/", "v", "?", "x", "=", "y">>

\* schema.paths after steps 4 and 5, as [path, method, operation] entries
DocNone == <<>>

DocAll == [i \in 1..MaxRoutes |-> [path |-> PathOf(i), method |-> Get, operation |-> OpInt1]]

\* against DocAll: route 1 differs in an example timestamp only, route 2 is
\* unchanged, route 3 is gone, the others changed, and one route is new
DocMixed ==
  <<[path |-> PathOf(1), method |-> Get, operation |-> OpInt2],
    [path |-> PathOf(2), method |-> Get, operation |-> OpInt1]>>
  \o [i \in 1..(MaxRoutes - 3) |->
        [path |-> PathOf(i + 3), method |-> Get, operation |-> OpStr1]]
  \o <<[path |-> QueryPath, method |-> Post, operation |-> OpSmall]>>

FetchedDocs == {DocNone, DocAll, DocMixed}

\* what an earlier run, or none, left in cache/<provider>
StoredCaches ==
  { [specFile |-> "absent", routeFiles |-> <<>>],
    [specFile |-> "absent", routeFiles |-> NewRoutes(DocAll)],
    [specFile |-> "old", routeFiles |-> <<>>],
    [specFile |-> "old", routeFiles |-> NewRoutes(DocAll)] }

Init ==
  /\ NoCall
  /\ LedgerEmpty
  /\ apiKey \in BOOLEAN
  /\ genCount = MaxGenCount
  /\ changedRoutes = <<>>
  /\ task = <<>>
  /\ pc = "start"
  /\ stdout = <<>>
  /\ \E c \in StoredCaches :
       /\ specFile = c.specFile
       /\ specAtStart = c.specFile
       /\ routeFiles = c.routeFiles
  /\ oldRoutes = <<>>
  /\ isFirstRun = FALSE
  /\ attempt = 0
  /\ fetchLog = <<>>
  /\ response = <<>>
  /\ next = 0
  /\ promise = <<>>
  /\ executing = {}
  /\ race = "none"
  /\ results = <<>>

\* steps 1 and 2, and the start of step 3
Start ==
  /\ pc = "start"
  /\ oldRoutes' = routeFiles
  /\ isFirstRun' = DetectFirstRun(specFile)
  /\ attempt' = 1
  /\ pc' = "fetch"
  /\ UNCHANGED <<callVars, ledgerVars, analyzeVars, stdout, specFile, specAtStart, routeFiles,
                 fetchLog, response, poolVars>>

\* one iteration of the loop of step 3 up to its await, or to the throw after
\* the loop; result is "ok", "notOk" (response.ok false) or "error" (fetch rejects)
Fetch(result, doc) ==
  /\ pc = "fetch"
  /\ fetchLog' = Append(fetchLog, [ev |-> result, ms |-> 0])
  /\ response' = IF result = "ok" THEN doc ELSE response
  /\ pc' = IF result = "ok" THEN "process"
           ELSE IF result = "notOk" /\ attempt < MaxAttempts THEN "sleep"
           ELSE "aborted"
  /\ UNCHANGED <<callVars, ledgerVars, analyzeVars, stdout, cacheVars, attempt, poolVars>>

\* the setTimeout of step 3 fires
Sleep ==
  /\ pc = "sleep"
  /\ fetchLog' = Append(fetchLog, [ev |-> "sleep", ms |-> Delay(attempt)])
  /\ attempt' = attempt + 1
  /\ pc' = "fetch"
  /\ UNCHANGED <<callVars, ledgerVars, analyzeVars, stdout, cacheVars, response, poolVars>>

FirstRunResult == [has_changes |-> FALSE, first_run |-> TRUE, changed_routes |-> <<>>]
NoChangesResult == [has_changes |-> FALSE, first_run |-> FALSE, changed_routes |-> <<>>]

\* end of step 3 to step 7
Process ==
  /\ pc = "process"
  /\ specFile' = "new"
  /\ routeFiles' = NewRoutes(response)
  /\ LET changed == CompareRoutes(oldRoutes, NewRoutes(response))
     IN IF isFirstRun
        THEN /\ stdout' = Append(stdout, FirstRunResult)
             /\ pc' = "done"
             /\ UNCHANGED <<changedRoutes, task, promise, next>>
        ELSE IF Len(changed) = 0
          THEN /\ stdout' = Append(stdout, NoChangesResult)
               /\ pc' = "done"
               /\ UNCHANGED <<changedRoutes, task, promise, next>>
        ELSE /\ changedRoutes' = changed
             /\ task' = [i \in 1..Len(changed) |-> Idle]
             /\ promise' = [i \in 1..Len(changed) |-> "none"]
             /\ next' = 1
             /\ pc' = "loop"
             /\ stdout' = stdout
  /\ UNCHANGED <<callVars, ledgerVars, apiKey, genCount, specAtStart, oldRoutes, isFirstRun,
                 fetchVars, executing, race, results>>

\* where withConcurrency goes on after the loop body for item next - 1
AfterItem_Stop(n) == "all"

AfterItem(n) == IF n > Len(changedRoutes) THEN "all" ELSE "loop"

\* results.push(p)
PushResult_Unshift(array, p) == <<p>> \o array

PushResult(array, p) == Append(array, p)

\* one iteration of the loop of withConcurrency, up to its await or to the
\* next iteration
Dispatch ==
  /\ pc = "loop"
  /\ LET started == AnalyzeEnter(AnalyzeArgs(changedRoutes[next]))
         nowExecuting == executing \cup {next}
     IN /\ task' = [task EXCEPT ![next] = started]
        /\ promise' = [promise EXCEPT ![next] = "pending"]
        /\ executing' = nowExecuting
        /\ results' = PushResult(results, next)
        /\ IF RaceNeeded(nowExecuting, Limit)
           THEN /\ pc' = "race"
                /\ race' = IF SomeRejected(promise, executing) THEN "rejected"
                           ELSE "pending"
           ELSE /\ pc' = AfterItem(next + 1)
                /\ race' = "none"
  /\ next' = next + 1
  /\ UNCHANGED <<callVars, ledgerVars, apiKey, genCount, changedRoutes, stdout, cacheVars,
                 fetchVars>>

\* the frame of a finished analyzeRouteChange call is gone: its result stays
Collected(t) == [t EXCEPT !.calls = <<>>]

\* the reaction of p = fn(item).then(...) to a settled fn(item): on fulfilment
\* executing.delete(p) and p is fulfilled, on rejection p is rejected
Reaction(i, t) ==
  /\ task' = [task EXCEPT ![i] = Collected(t)]
  /\ IF t.st = "returned"
     THEN /\ executing' = executing \ {i}
          /\ promise' = [promise EXCEPT ![i] = "resolved"]
          /\ race' = IF pc = "race" /\ race = "pending" THEN "fulfilled" ELSE race
     ELSE /\ executing' = executing
          /\ promise' = [promise EXCEPT ![i] = "rejected"]
          /\ race' = IF pc = "race" /\ race = "pending" THEN "rejected" ELSE race

\* Jobs of the microtask queue.  They run before the next I/O event is handled,
\* so no generateText call settles while one of them is waiting.
ReactionWaiting(i) ==
  /\ i \in DOMAIN promise
  /\ promise[i] = "pending"
  /\ task[i].st \in {"returned", "threw"}

ResumeWaiting ==
  \/ pc = "race" /\ race \in {"fulfilled", "rejected"}
  \/ pc = "all" /\ (SomeRejected(promise, DOMAIN promise) \/ AllFulfilled(promise))

MicrotaskWaiting == ResumeWaiting \/ \E i \in DOMAIN promise : ReactionWaiting(i)

\* the reaction for an item whose analyzeRouteChange call ended before its
\* first await, so that fn(item) was settled when the loop went on; these
\* reactions were queued in the order of the items
ThenCallback(i) ==
  /\ pc \in {"race", "all"}
  /\ ReactionWaiting(i)
  /\ \A j \in 1..(i - 1) : ~ ReactionWaiting(j)
  /\ Reaction(i, task[i])
  /\ UNCHANGED <<callVars, ledgerVars, apiKey, genCount, changedRoutes, pc, stdout, cacheVars,
                 fetchVars, next, results>>

\* the pending generateText call of item i settles while the top-level code
\* awaits; when this ends the analyzeRouteChange call, the reaction of p is the
\* next job to run
Settle(i, outcome) ==
  /\ pc \in {"race", "all"}
  /\ ~ MicrotaskWaiting
  /\ task[i].st = "gen"
  /\ LET t == AnalyzeResume(AnalyzeArgs(changedRoutes[i]), i, task[i], outcome)
     IN IF t.st = "gen"
        THEN /\ task' = [task EXCEPT ![i] = t]
             /\ UNCHANGED <<promise, executing, race>>
        ELSE Reaction(i, t)
  /\ UNCHANGED <<callVars, ledgerVars, apiKey, genCount, changedRoutes, pc, stdout, cacheVars,
                 fetchVars, next, results>>

\* the rejection reaches the top level and ends the process: the calls still
\* pending are abandoned
Abandoned(tasks) ==
  [i \in DOMAIN tasks |->
     IF tasks[i].st = "gen" THEN [tasks[i] EXCEPT !.st = "abandoned", !.calls = <<>>]
     ELSE tasks[i]]

\* await Promise.race(executing) ends
RaceResume ==
  /\ pc = "race"
  /\ race \in {"fulfilled", "rejected"}
  /\ ~ \E i \in DOMAIN promise : ReactionWaiting(i)
  /\ pc' = IF race = "fulfilled" THEN AfterItem(next) ELSE "aborted"
  /\ task' = IF race = "fulfilled" THEN task ELSE Abandoned(task)
  /\ race' = "none"
  /\ UNCHANGED <<callVars, ledgerVars, apiKey, genCount, changedRoutes, stdout, cacheVars,
                 fetchVars, next, promise, executing, results>>

\* await withConcurrency(...) ends: Promise.all(results) is settled
AllResume ==
  /\ pc = "all"
  /\ ~ \E i \in DOMAIN promise : ReactionWaiting(i)
  /\ \/ /\ SomeRejected(promise, DOMAIN promise)
        /\ pc' = "aborted"
        /\ task' = Abandoned(task)
     \/ /\ ~ SomeRejected(promise, DOMAIN promise)
        /\ AllFulfilled(promise)
        /\ pc' = "append"
        /\ task' = task
  /\ UNCHANGED <<callVars, ledgerVars, apiKey, genCount, changedRoutes, stdout, cacheVars,
                 fetchVars, poolVars>>

\* analysisResults: the value of Promise.all(results), that is the value of
\* every promise of results, in the order of results
AnalysisResults == [k \in 1..Len(results) |-> task[results[k]]]

\* allChanges.push(...result.changes) for every result, in the order of results
RECURSIVE AllChanges(_, _)
AllChanges(tasks, i) ==
  IF i > Len(tasks) THEN <<>> ELSE tasks[i].changes \o AllChanges(tasks, i + 1)

\* step 9
AppendStep(faultAt) ==
  /\ pc = "append"
  /\ LET allChanges == AllChanges(AnalysisResults, 1)
         r == AppendChanges(ledger, Provider, allChanges, faultAt)
     IN /\ ledger' = r.files
        /\ lastOutcome' = r.outcome
        /\ callLog' = Append(callLog, [changes |-> allChanges, faultAt |-> faultAt])
        /\ pc' = IF r.outcome = "returned" THEN "output" ELSE "aborted"
  /\ prevLedger' = ledger
  /\ UNCHANGED <<callVars, analyzeVars, stdout, cacheVars, fetchVars, poolVars>>

\* steps 10 to 12
Output ==
  /\ pc = "output"
  /\ stdout' = Append(stdout,
       [has_changes |-> TRUE, first_run |-> FALSE,
        changed_routes |-> [i \in 1..Len(changedRoutes) |->
                              [relativePath |-> changedRoutes[i].relativePath,
                               status |-> changedRoutes[i].status]]])
  /\ pc' = "done"
  /\ UNCHANGED <<callVars, ledgerVars, analyzeVars, cacheVars, fetchVars, poolVars>>

Next ==
  \/ Start
  \/ \E result \in {"notOk", "error"} : Fetch(result, <<>>)
  \/ \E doc \in FetchedDocs : Fetch("ok", doc)
  \/ Sleep
  \/ Process
  \/ Dispatch
  \/ \E i \in DOMAIN task, outcome \in GenOutcomes : Settle(i, outcome)
  \/ \E i \in DOMAIN task : ThenCallback(i)
  \/ RaceResume
  \/ AllResume
  \/ \E faultAt \in 0..Len(GroupByRoute(Provider, AllChanges(AnalysisResults, 1), <<>>)) :
       AppendStep(faultAt)
  \/ Output

Spec == Init /\ [][Next]_vars

----------------------------------------------------------------------------
(* Properties of the change ledger *)

Range(seq) == { seq[i] : i \in 1..Len(seq) }

IsPrefix(a, b) == Len(a) <= Len(b) /\ SubSeq(b, 1, Len(a)) = a

WellFormed(change) ==
  /\ "route" \in DOMAIN change
  /\ \E i \in 1..Len(change.route) : change.route[i] = " "

WithoutRouteField(change) == [f \in DOMAIN change \ {"route"} |-> change[f]]

\* the records of `changes` that belong to file k, in input order, as stored
RECURSIVE RecordsFor(_, _)
RecordsFor(k, changes) ==
  IF changes = <<>> THEN <<>>
  ELSE (IF WellFormed(Head(changes)) /\ FilePath(Provider, Head(changes).route) = k
        THEN <<WithoutRouteField(Head(changes))>> ELSE <<>>)
       \o RecordsFor(k, Tail(changes))

RECURSIVE AllRecordsFor(_, _)
AllRecordsFor(k, calls) ==
  IF calls = <<>> THEN <<>>
  ELSE RecordsFor(k, Head(calls).changes) \o AllRecordsFor(k, Tail(calls))

KeysOf(changes) ==
  { FilePath(Provider, c.route) : c \in { x \in Range(changes) : WellFormed(x) } }

NoFaultSoFar == \A i \in 1..Len(callLog) : callLog[i].faultAt = 0

LastCall == callLog[Len(callLog)]

StoredBefore(k) == IF k \in DOMAIN prevLedger THEN prevLedger[k] ELSE <<>>

\* C5: after any sequence of non-interleaved appendChanges calls, the sequence
\* stored under each key is the concatenation, in call order and in within-call
\* order, of the records appended to that key; every call leaves the records
\* stored before it as an unchanged prefix.
C5_AppendOnly ==
  /\ \A k \in DOMAIN prevLedger :
       k \in DOMAIN ledger /\ IsPrefix(prevLedger[k], ledger[k])
  /\ NoFaultSoFar =>
       /\ DOMAIN ledger = UNION { KeysOf(callLog[i].changes) : i \in 1..Len(callLog) }
       /\ \A k \in DOMAIN ledger : ledger[k] = AllRecordsFor(k, callLog)

C5_Witness ==
  /\ Len(callLog) = 2
  /\ NoFaultSoFar
  /\ \E k \in DOMAIN prevLedger : Len(prevLedger[k]) = 2 /\ Len(ledger[k]) = 4

\* C6: from an empty ledger, appendChanges([r1]) followed by appendChanges([r2])
\* for two records of the same route stores what one appendChanges([r1, r2])
\* stores, namely [r1, r2] in that order under the route's key.
C6_TwoCallsAsOne ==
  (/\ Len(callLog) = 2
   /\ NoFaultSoFar
   /\ Len(callLog[1].changes) = 1 /\ Len(callLog[2].changes) = 1
   /\ "route" \in DOMAIN callLog[1].changes[1]
   /\ "route" \in DOMAIN callLog[2].changes[1]
   /\ callLog[1].changes[1].route = callLog[2].changes[1].route)
  => LET r1 == callLog[1].changes[1]
         r2 == callLog[2].changes[1]
     IN /\ ledger = AppendChanges(<< >>, Provider, <<r1, r2>>, 0).files
        /\ WellFormed(r1) =>
             /\ DOMAIN ledger = {FilePath(Provider, r1.route)}
             /\ ledger[FilePath(Provider, r1.route)]
                  = <<WithoutRouteField(r1), WithoutRouteField(r2)>>

C6_Witness ==
  /\ Len(callLog) = 2
  /\ NoFaultSoFar
  /\ callLog[1].changes = <<ChangeWithRoute(RoutePostB, 1)>>
  /\ callLog[2].changes = <<ChangeWithRoute(RoutePostB, 2)>>
  /\ Len(ledger[FilePath(Provider, RoutePostB)]) = 2

ExpectedKey(route) ==
  CASE route = RouteGetA -> <<"c", "h", "a", "n", "g", "e", "s", "/", "p", "/", "a",
                              "/", "g", "e", "t", ".", "y", "m", "l">>
    [] route = RouteGetALower -> <<"c", "h", "a", "n", "g", "e", "s", "/", "p", "/", "a",
                                   "/", "g", "e", "t", ".", "y", "m", "l">>
    [] route = RoutePostB -> <<"c", "h", "a", "n", "g", "e", "s", "/", "p", "/", "b",
                               "/", "p", "o", "s", "t", ".", "y", "m", "l">>

\* C7 as stated: in one call, records with different routes are stored under
\* different keys.
C7_DifferentRoutesDifferentKeys ==
  (Len(callLog) > 0 /\ LastCall.faultAt = 0) =>
    \A c1, c2 \in { x \in Range(LastCall.changes) : WellFormed(x) } :
      c1.route # c2.route =>
        ~ \E k \in DOMAIN ledger :
            /\ WithoutRouteField(c1) \in Range(ledger[k])
            /\ WithoutRouteField(c2) \in Range(ledger[k])

\* C7 (amended): one call stores each well-formed record under the key
\* changes/<provider><path>/<method lower-cased>.yml of its route; the records
\* added to a key are the input records whose route maps to that key, in input
\* order, so their number is the number of such input records; no stored record
\* has a route field.
C7_PartitionByKey ==
  /\ \A k \in DOMAIN ledger : \A i \in 1..Len(ledger[k]) :
       "route" \notin DOMAIN ledger[k][i]
  /\ (Len(callLog) > 0 /\ LastCall.faultAt = 0) =>
       /\ \A c \in { x \in Range(LastCall.changes) : WellFormed(x) } :
            /\ ExpectedKey(c.route) \in DOMAIN ledger
            /\ WithoutRouteField(c) \in Range(ledger[ExpectedKey(c.route)])
       /\ \A k \in DOMAIN ledger :
            /\ Len(ledger[k]) - Len(StoredBefore(k))
                 = Cardinality({ i \in 1..Len(LastCall.changes) :
                       /\ WellFormed(LastCall.changes[i])
                       /\ ExpectedKey(LastCall.changes[i].route) = k })
            /\ SubSeq(ledger[k], Len(StoredBefore(k)) + 1, Len(ledger[k]))
                 = RecordsFor(k, LastCall.changes)

C7_Witness ==
  /\ Len(callLog) > 0
  /\ LastCall.faultAt = 0
  /\ { c.route : c \in { x \in Range(LastCall.changes) : WellFormed(x) } }
       = {RouteGetA, RoutePostB}
  /\ FilePath(Provider, RouteGetA) \in DOMAIN ledger
  /\ FilePath(Provider, RoutePostB) \in DOMAIN ledger

\* C8: a record without a route field, or whose route has no space, is stored
\* under no key; the well-formed records of the same call are stored; the call
\* returns normally unless reading a ledger file fails.
C8_MalformedDropped ==
  Len(callLog) > 0 =>
    /\ \A c \in { x \in Range(LastCall.changes) : ~ WellFormed(x) } :
         \A k \in DOMAIN ledger : WithoutRouteField(c) \notin Range(ledger[k])
    /\ LastCall.faultAt = 0 =>
         /\ lastOutcome = "returned"
         /\ \A c \in { x \in Range(LastCall.changes) : WellFormed(x) } :
              \E k \in DOMAIN ledger : WithoutRouteField(c) \in Range(ledger[k])

C8_Witness ==
  /\ Len(callLog) = 2
  /\ NoFaultSoFar
  /\ lastOutcome = "returned"
  /\ callLog[1].changes = <<ChangeWithoutRoute(1), ChangeWithRoute(RouteGetA, 2)>>
  /\ callLog[2].changes = <<ChangeWithRoute(RouteNoSpace, 3), ChangeWithRoute(RouteGetA, 4)>>
  /\ ledger[FilePath(Provider, RouteGetA)] = <<[note |-> 2], [note |-> 4]>>

----------------------------------------------------------------------------
(* Properties of the change classifier *)

Tiers(t) == [k \in 1..Len(t.calls) |-> t.calls[k].tier]

Finished(t) == t.st \in {"returned", "threw"}

\* C1: a call of analyzeRouteChange that reaches the generation capability and
\* sees every generation call fail with "input too large" makes exactly the
\* calls of tier 1, tier 2 and tier 3, in that order, and then throws that
\* failure; a tier 3 call is never made when the tier 1 or tier 2 call succeeded.
C1_ThreeTiers ==
  \A i \in DOMAIN task :
    LET t == task[i]
    IN /\ IsPrefix(Tiers(t), <<1, 2, 3>>)
       /\ (/\ Finished(t)
           /\ Len(t.calls) >= 1
           /\ \A k \in 1..Len(t.calls) : t.calls[k].outcome = "tooLarge")
          => /\ Tiers(t) = <<1, 2, 3>>
             /\ t.st = "threw"
             /\ t.error = [kind |-> "tooLarge", tier |-> 3]
       /\ (\E k \in 1..Len(t.calls) :
             t.calls[k].tier \in {1, 2} /\ t.calls[k].outcome = "ok")
          => ~ \E k \in 1..Len(t.calls) : t.calls[k].tier = 3

C1_Witness ==
  /\ pc = "aborted"
  /\ task[1].st = "threw"
  /\ task[1].calls = <<[tier |-> 1, outcome |-> "tooLarge"],
                       [tier |-> 2, outcome |-> "tooLarge"],
                       [tier |-> 3, outcome |-> "tooLarge"]>>

\* C2: a generation failure other than "input too large" is not retried: the
\* failing call is the last one (one call if it is tier 1, two if it is tier 2),
\* analyzeRouteChange throws that failure and returns no change records, and
\* the calling script prints nothing.
C2_OtherFailurePropagates ==
  \A i \in DOMAIN task :
    LET t == task[i]
    IN \A k \in 1..Len(t.calls) :
         t.calls[k].outcome = "other"
         => /\ Len(t.calls) = k
            /\ t.calls[k].tier = k
            /\ t.st = "threw"
            /\ t.error = [kind |-> "other", tier |-> k]
            /\ t.changes = <<>>
            /\ stdout = <<>>
            /\ pc \in {"done", "aborted"} => pc = "aborted"

C2_Witness ==
  /\ pc = "aborted"
  /\ stdout = <<>>
  /\ task[1].st = "threw"
  /\ task[1].calls = <<[tier |-> 1, outcome |-> "tooLarge"],
                       [tier |-> 2, outcome |-> "other"]>>

----------------------------------------------------------------------------
(* Properties of the run of check-for-changes *)

\* the classification calls that were dispatched and have not completed
InFlight == {i \in DOMAIN task : task[i].st = "gen"}

\* the promises p of withConcurrency that are not settled
Unsettled == {i \in DOMAIN promise : promise[i] = "pending"}

\* C3: with the limit 5, however many route units changed and in whatever
\* order the classification calls complete, at most 5 calls are dispatched
\* and not yet completed, and executing never holds more than 5 promises.
C3_AtMostFiveInFlight ==
  /\ Cardinality(InFlight) <= Limit
  /\ Cardinality(Unsettled) <= Limit
  /\ Cardinality(executing) <= Limit

C3_Witness ==
  /\ pc = "race"
  /\ Cardinality(InFlight) = Limit
  /\ Len(changedRoutes) > Limit
  /\ \E i \in DOMAIN promise : promise[i] = "resolved"

\* C4: in a run with changed routes appendChanges is called at most once and
\* the result is printed at most once, neither before every changed route was
\* dispatched and its classification call returned; once a classification call
\* has thrown there is no appendChanges call, no ledger write and no result,
\* and the run cannot complete.
C4_AppendOnceAfterAll ==
  changedRoutes # <<>>
  => /\ Len(callLog) <= 1
     /\ Len(stdout) <= 1
     /\ (callLog # <<>> \/ stdout # <<>> \/ pc \in {"append", "output", "done"})
        => /\ next = Len(changedRoutes) + 1
           /\ \A i \in DOMAIN task : task[i].st = "returned" /\ promise[i] = "resolved"
     /\ stdout # <<>> => Len(callLog) = 1
     /\ (\E i \in DOMAIN task : task[i].st = "threw")
        => /\ callLog = <<>>
           /\ ledger = << >>
           /\ stdout = <<>>
           /\ pc \notin {"append", "output", "done"}

C4_Witness ==
  /\ pc = "done"
  /\ Len(changedRoutes) > Limit
  /\ Len(callLog) = 1
  /\ Len(stdout) = 1
  /\ stdout[1].has_changes
  /\ DOMAIN ledger # {}

\* the n-th fetch attempt of a run and the wait after it, in fetchLog
AttemptAt(n) == 2 * n - 1
WaitAt(n) == 2 * n

Attempted(n) == AttemptAt(n) <= Len(fetchLog)
Failed(n) == Attempted(n) /\ fetchLog[AttemptAt(n)].ev \in {"notOk", "error"}

\* C9: the download makes at most 3 fetch attempts and stops at the first
\* one whose response is ok; a failed first attempt is followed by a wait of
\* 5 seconds and a failed second attempt by a wait of 30 seconds, a failed third
\* attempt by no wait; after three failed attempts the run is aborted with the
\* stored specification file and the stored route units as they were.
C9_ThreeAttemptsWithBackoff ==
  /\ Len(fetchLog) <= AttemptAt(MaxAttempts)
  /\ \A k \in 1..Len(fetchLog) :
       /\ fetchLog[k].ev = "sleep" <=> k % 2 = 0
       /\ fetchLog[k].ev = "ok" => k = Len(fetchLog)
  /\ \A n \in 1..(MaxAttempts - 1) :
       Failed(n)
       => IF WaitAt(n) <= Len(fetchLog)
          THEN fetchLog[WaitAt(n)] = [ev |-> "sleep", ms |-> IF n = 1 THEN 5000 ELSE 30000]
          ELSE pc = "sleep"
  /\ Failed(MaxAttempts)
     => /\ pc = "aborted"
        /\ specFile = specAtStart
        /\ routeFiles = oldRoutes
        /\ stdout = <<>>

\* C10: the printed result has first_run true exactly when no specification
\* file was stored when the run started; such a run makes no classification
\* call and no ledger write, and what it prints is has_changes false with no
\* changed routes, whatever route units the new document holds.
C10_FirstRun ==
  /\ \A k \in 1..Len(stdout) : stdout[k].first_run <=> specAtStart = "absent"
  /\ specAtStart = "absent"
     => /\ task = <<>>
        /\ changedRoutes = <<>>
        /\ callLog = <<>>
        /\ ledger = << >>
        /\ \A k \in 1..Len(stdout) :
             /\ ~ stdout[k].has_changes
             /\ stdout[k].changed_routes = <<>>
        /\ pc = "done" => stdout = <<FirstRunResult>>

C10_Witness ==
  /\ pc = "done"
  /\ specAtStart = "absent"
  /\ oldRoutes # <<>>
  /\ routeFiles # <<>>
  /\ routeFiles # oldRoutes
  /\ stdout = <<FirstRunResult>>

----------------------------------------------------------------------------
(* Properties of the fast path of the classifier *)

\* the call of analyzeRouteChange for item i has been made
Called(i) == i \in DOMAIN task /\ task[i].st # "idle"

\* a status-M item whose two contents are identical after the normalization
\* of example timestamps
TimestampOnly(item) ==
  /\ item.status = "M"
  /\ isIdenticalAfterNormalizingTimestamps(item.oldContent, item.newContent)

\* what the claim says of a call that took the fast path
FastPathResult(i) ==
  LET t == task[i]
      item == AnalyzeArgs(changedRoutes[i])
  IN /\ t.st = "returned"
     /\ t.calls = <<>>
     /\ Len(t.changes) = 1
     /\ t.changes[1].doc_only
     /\ ~ t.changes[1].breaking
     /\ ~ t.changes[1].deprecated
     /\ t.changes[1].route = item.route
     /\ t.changes[1].date = item.date

\* C11 as stated: every call with status M and contents identical after
\* normalization returns exactly one doc_only record with the route and date
\* given, and calls the generation capability not once.
C11_FastPathAlways ==
  \A i \in DOMAIN task :
    Called(i) /\ TimestampOnly(AnalyzeArgs(changedRoutes[i])) => FastPathResult(i)

\* C11 amended: the same, for calls made with AI_GATEWAY_API_KEY set and with
\* two non-empty contents.  (Without the key the call throws at line 222.)
C11_FastPath ==
  \A i \in DOMAIN task :
    LET item == AnalyzeArgs(changedRoutes[i])
    IN /\ (/\ Called(i)
           /\ apiKey
           /\ NonEmpty(item.oldContent) /\ NonEmpty(item.newContent)
           /\ TimestampOnly(item))
          => /\ FastPathResult(i)
             /\ pc = "done" => stdout = <<[changes |-> task[i].changes]>>
       /\ (Called(i) /\ ~ apiKey) => task[i].st = "threw" /\ task[i].calls = <<>>

C11_Witness ==
  /\ pc = "done"
  /\ changedRoutes[1].status = "M"
  /\ changedRoutes[1].oldContent = Json(OpInt1)
  /\ changedRoutes[1].newContent = Json(OpInt2)
  /\ task[1].calls = <<>>
  /\ Len(stdout) = 1
  /\ Len(stdout[1].changes) = 1
  /\ stdout[1].changes[1].doc_only

----------------------------------------------------------------------------
(* check-for-changes, step 7 alone: the comparison of two unit maps *)

\* the variables of the classifier, for the specifications that do not use them
NoClassifier ==
  /\ apiKey = TRUE
  /\ genCount = 0
  /\ task = <<>>

UnitIds == {RelativePath(PathOf(i), Get) : i \in 1..MaxUnits}

\* a route file read in step 1 holds what an earlier run wrote, or nothing when
\* that run was interrupted inside writeFile
OldContents == {EmptyContent, Json(OpInt1), Json(OpInt2), Json(OpStr1)}

\* a route file content made in step 5
NewContents == {Json(OpInt1), Json(OpInt2), Json(OpStr1)}

\* the Map with the entries of the function f, in the order of the sequence ids
RECURSIVE MapOf(_, _)
MapOf(f, ids) ==
  IF ids = <<>> THEN <<>>
  ELSE IF Head(ids) \in DOMAIN f
    THEN <<[k |-> Head(ids), v |-> f[Head(ids)]]>> \o MapOf(f, Tail(ids))
  ELSE MapOf(f, Tail(ids))

Ascending == [i \in 1..MaxUnits |-> RelativePath(PathOf(i), Get)]
Descending == [i \in 1..MaxUnits |-> RelativePath(PathOf(MaxUnits + 1 - i), Get)]

PartialMaps(ids, contents) == UNION {[d -> contents] : d \in SUBSET ids}

CompareInit ==
  /\ NoCall
  /\ LedgerEmpty
  /\ NoClassifier
  /\ changedRoutes = <<>>
  /\ pc = "compare"
  /\ stdout = <<>>
  /\ specFile = "new"
  /\ specAtStart = "old"
  /\ \E f \in PartialMaps(UnitIds, OldContents) : oldRoutes = MapOf(f, Ascending)
  /\ \E f \in PartialMaps(UnitIds, NewContents) : routeFiles = MapOf(f, Descending)
  /\ isFirstRun = FALSE
  /\ attempt = 1
  /\ fetchLog = <<>>
  /\ response = <<>>
  /\ next = 0
  /\ promise = <<>>
  /\ executing = {}
  /\ race = "none"
  /\ results = <<>>

\* step 7 up to the test of changedRoutes.length
Compare ==
  /\ pc = "compare"
  /\ changedRoutes' = CompareRoutes(oldRoutes, routeFiles)
  /\ pc' = "compared"
  /\ UNCHANGED <<callVars, ledgerVars, apiKey, genCount, task, stdout, cacheVars, fetchVars,
                 poolVars>>

CompareNext == Compare

SpecCompare == CompareInit /\ [][CompareNext]_vars

\* the entries of the changed list for one unit identifier
EntriesFor(id) == {i \in 1..Len(changedRoutes) : changedRoutes[i].relativePath = id}

HasStatus(id, status) == \E i \in EntriesFor(id) : changedRoutes[i].status = status

\* C12: after the comparison every unit identifier has at most one entry in
\* the changed list; it has status A exactly when the unit is in the new map
\* only, D exactly when it is in the old map only, M exactly when it is in
\* both with contents that differ verbatim and are not identical after the
\* normalization of example timestamps; equal contents give no entry.
C12_StatusByMembership ==
  pc = "compared"
  => \A id \in UnitIds :
       LET inOld == MapHas(oldRoutes, id)
           inNew == MapHas(routeFiles, id)
       IN /\ Cardinality(EntriesFor(id)) <= 1
          /\ HasStatus(id, "A") <=> (inNew /\ ~ inOld)
          /\ HasStatus(id, "D") <=> (inOld /\ ~ inNew)
          /\ HasStatus(id, "M") <=>
               /\ inOld /\ inNew
               /\ MapGet(oldRoutes, id) # MapGet(routeFiles, id)
               /\ ~ isIdenticalAfterNormalizingTimestamps(MapGet(oldRoutes, id),
                                                          MapGet(routeFiles, id))
          /\ (inOld /\ inNew /\ MapGet(oldRoutes, id) = MapGet(routeFiles, id))
             => EntriesFor(id) = {}

----------------------------------------------------------------------------
(* Properties of the order of the classification results *)

\* what the call for the i-th changed route returns: the answer for item i,
\* stamped with the route of that item
ExpectedResult(i) ==
  Stamp(GeneratedChanges(i), deriveRoute(changedRoutes[i].relativePath), Today)

RECURSIVE ExpectedChanges(_)
ExpectedChanges(i) ==
  IF i > Len(changedRoutes) THEN <<>> ELSE ExpectedResult(i) \o ExpectedChanges(i + 1)

\* C13: the results are in the order in which the changed routes were
\* submitted, whatever the order in which the calls completed: the k-th entry
\* of results is the promise of the k-th item, the k-th value that
\* withConcurrency returns is the result of the call for the k-th item, and
\* allChanges is the concatenation of the results in the order of the items.
C13_ResultsInSubmissionOrder ==
  /\ results = [k \in 1..Len(results) |-> k]
  /\ pc \in {"append", "output", "done"} /\ changedRoutes # <<>>
     => /\ Len(AnalysisResults) = Len(changedRoutes)
        /\ \A k \in 1..Len(changedRoutes) :
             /\ AnalysisResults[k].st = "returned"
             /\ AnalysisResults[k].changes = ExpectedResult(k)
  /\ callLog # <<>> => callLog[1].changes = ExpectedChanges(1)

\* the last submitted calls have completed while the first one is pending
C13_Witness ==
  /\ pc = "all"
  /\ Len(changedRoutes) >= 3
  /\ results = [k \in 1..Len(changedRoutes) |-> k]
  /\ task[1].st = "gen"
  /\ \A i \in 2..Len(changedRoutes) :
       promise[i] = "resolved" /\ task[i].changes = ExpectedResult(i)
  /\ \E i \in 2..Len(changedRoutes) : task[i].changes # <<>>

----------------------------------------------------------------------------
(* lib/analyze-route-change.js: computeStructuralDiff and summarizeValue *)

SummaryLimit == 300

summarizeValue(val) ==
  IF Kind(val) = "null" THEN NullChars
  ELSE IF Kind(val) = "str" THEN val.str
  ELSE IF Kind(val) = "num" THEN val.num
  ELSE IF Kind(val) = "bool" THEN BoolChars(val.bool)
  ELSE LET s == Stringify(val)
       IN IF Len(s) <= SummaryLimit THEN s
          ELSE SubSeq(s, 1, SummaryLimit) \o <<".", ".", ".">>

\* oldObj === newObj: sameRef tells whether the two arguments are one object
StrictEquals(a, b, sameRef) ==
  IF Kind(a) \in {"arr", "obj"} /\ Kind(b) \in {"arr", "obj"} THEN sameRef
  ELSE Kind(a) = Kind(b) /\ a = b

RootPath == <<"(", "r", "o", "o", "t", ")">>

Changed(path, old, new) ==
  [path |-> path, type |-> "changed", old |-> summarizeValue(old),
   new |-> summarizeValue(new)]

Added(path, new) == [path |-> path, type |-> "added", new |-> summarizeValue(new)]

Removed(path, old) == [path |-> path, type |-> "removed", old |-> summarizeValue(old)]

\* `${path}[${i}]`
IndexPath(path, i) == path \o <<"[">> \o KeyChars(IndexKey(i)) \o <<"]">>

\* path ? `${path}.${key}` : key
KeyPath(path, key) ==
  IF path # <<>> THEN path \o <<".">> \o KeyChars(key) ELSE KeyChars(key)

RECURSIVE computeStructuralDiff(_, _, _, _), DiffItems(_, _, _, _), DiffKeys(_, _, _, _, _)
computeStructuralDiff(oldObj, newObj, path, sameRef) ==
  IF StrictEquals(oldObj, newObj, sameRef) THEN <<>>
  ELSE IF \/ Kind(oldObj) = "null" \/ Kind(newObj) = "null"
          \/ TypeOf(oldObj) # TypeOf(newObj)
    THEN <<Changed(IF path # <<>> THEN path ELSE RootPath, oldObj, newObj)>>
  ELSE IF TypeOf(oldObj) # "object"
    THEN IF ~ StrictEquals(oldObj, newObj, sameRef)
         THEN <<Changed(path, oldObj, newObj)>> ELSE <<>>
  ELSE IF IsArray(oldObj) /\ IsArray(newObj)
    THEN DiffItems(oldObj.arr, newObj.arr, path, 0)
  ELSE DiffKeys(oldObj, newObj, path,
                SetOfKeys(ObjectKeys(oldObj) \o ObjectKeys(newObj), <<>>), 1)

\* the loop over the indices i, i + 1, .. of the longer array
DiffItems(old, new, path, i) ==
  IF i >= Len(old) /\ i >= Len(new) THEN <<>>
  ELSE (IF i >= Len(old) THEN <<Added(IndexPath(path, i), new[i + 1])>>
        ELSE IF i >= Len(new) THEN <<Removed(IndexPath(path, i), old[i + 1])>>
        ELSE computeStructuralDiff(old[i + 1], new[i + 1], IndexPath(path, i), FALSE))
       \o DiffItems(old, new, path, i + 1)

\* the loop over allKeys from its n-th key on
DiffKeys(oldObj, newObj, path, allKeys, n) ==
  IF n > Len(allKeys) THEN <<>>
  ELSE LET key == allKeys[n]
           newPath == KeyPath(path, key)
       IN (IF ~ KeyIn(key, oldObj) THEN <<Added(newPath, AtKey(newObj, key))>>
           ELSE IF ~ KeyIn(key, newObj) THEN <<Removed(newPath, AtKey(oldObj, key))>>
           ELSE computeStructuralDiff(AtKey(oldObj, key), AtKey(newObj, key),
                                      newPath, FALSE))
          \o DiffKeys(oldObj, newObj, path, allKeys, n + 1)

----------------------------------------------------------------------------
(* computeStructuralDiff called on its own, on two parsed JSON documents *)

Scalars == {Null, Bool(TRUE), Num(<<"1">>), Num(<<"2">>), Str(<<"a">>)}

\* the values inside the sample arrays and objects
Leaves == {Null, Num(<<"1">>), Str(<<"a">>)}

SampleArrays == {Arr(items) : items \in UNION {[1..n -> Leaves] : n \in 0..MaxItems}}

\* JSON.parse lists the key "0" before the other keys whatever the order in
\* the text, and the other keys in the order of the text
KeyOrders == {<<"0", "a", "b">>, <<"0", "b", "a">>}

\* the entries of the function f from keys to values, in the given key order
RECURSIVE EntriesOf(_, _)
EntriesOf(f, order) ==
  IF order = <<>> THEN <<>>
  ELSE IF Head(order) \in DOMAIN f
    THEN <<[k |-> Head(order), v |-> f[Head(order)]]>> \o EntriesOf(f, Tail(order))
  ELSE EntriesOf(f, Tail(order))

SampleObjects ==
  {Obj(EntriesOf(f, order)) :
     f \in UNION {[d -> Leaves] : d \in {d \in SUBSET {"0", "a", "b"} :
                                            Cardinality(d) <= MaxItems}},
     order \in KeyOrders}

\* an array or object as the example of an operation
Nested == {Obj(<<[k |-> "example", v |-> t]>>) : t \in SampleArrays \cup SampleObjects}

SampleTrees == Scalars \cup SampleArrays \cup SampleObjects \cup Nested

\* the two arguments are the values of two JSON.parse calls, or one value
DiffInit ==
  /\ LedgerEmpty
  /\ NoClassifier
  /\ NoPipeline
  /\ changedRoutes = <<>>
  /\ stdout = <<>>
  /\ pc = "diff"
  /\ retval = <<>>
  /\ \E oldObj \in SampleTrees, newObj \in SampleTrees, sameRef \in BOOLEAN :
       /\ sameRef => oldObj = newObj
       /\ args = [oldObj |-> oldObj, newObj |-> newObj, sameRef |-> sameRef]

\* const diffs = computeStructuralDiff(oldObj, newObj)
CallDiff ==
  /\ pc = "diff"
  /\ retval' = computeStructuralDiff(args.oldObj, args.newObj, <<>>, args.sameRef)
  /\ pc' = "returned"
  /\ UNCHANGED <<args, ledgerVars, analyzeVars, stdout, cacheVars, fetchVars, poolVars>>

DiffNext == CallDiff

SpecDiff == DiffInit /\ [][DiffNext]_vars

----------------------------------------------------------------------------
(* Properties of the structural diff *)

\* two trees are structurally equal: the same kind of value, equal scalars,
\* arrays of equal length with equal items, objects with the same keys and
\* equal values under every key
RECURSIVE StructurallyEqual(_, _)
StructurallyEqual(a, b) ==
  /\ Kind(a) = Kind(b)
  /\ CASE Kind(a) = "arr" ->
            /\ Len(a.arr) = Len(b.arr)
            /\ \A i \in 1..Len(a.arr) : StructurallyEqual(a.arr[i], b.arr[i])
       [] Kind(a) = "obj" ->
            /\ {a.obj[i].k : i \in 1..Len(a.obj)} = {b.obj[i].k : i \in 1..Len(b.obj)}
            /\ \A i \in 1..Len(a.obj), j \in 1..Len(b.obj) :
                 a.obj[i].k = b.obj[j].k => StructurallyEqual(a.obj[i].v, b.obj[j].v)
       [] OTHER -> a = b

\* C14: computeStructuralDiff of a tree with itself is the empty list, for
\* one object passed twice and for two distinct objects that are structurally
\* equal (whatever the order of their keys).
C14_DiffOfEqualIsEmpty ==
  pc = "returned" /\ StructurallyEqual(args.oldObj, args.newObj) => retval = <<>>

C14_Witness ==
  /\ pc = "returned"
  /\ ~ args.sameRef
  /\ Kind(args.oldObj) = "obj"
  /\ Len(args.oldObj.obj) = 2
  /\ args.oldObj # args.newObj
  /\ StructurallyEqual(args.oldObj, args.newObj)
  /\ retval = <<>>

\* C15: computeStructuralDiff returns the empty list only for two trees that
\* are structurally equal.
C15_EmptyDiffOnlyIfEqual ==
  pc = "returned" /\ retval = <<>> => StructurallyEqual(args.oldObj, args.newObj)

\* the value under the only key `example`, for the nested samples
IsExampleOnly(node) ==
  Kind(node) = "obj" /\ Len(node.obj) = 1 /\ node.obj[1].k = "example"

\* C24: when the two values at a path, here the root or the path `example`,
\* are of different kinds among null, boolean, number, string, sequence and
\* mapping, the diff is one `changed` entry at that path with the summaries
\* of both values.
C24_KindMismatchIsOneChanged ==
  pc = "returned" =>
    /\ Kind(args.oldObj) # Kind(args.newObj)
         => retval = <<Changed(RootPath, args.oldObj, args.newObj)>>
    /\ /\ IsExampleOnly(args.oldObj)
       /\ IsExampleOnly(args.newObj)
       /\ Kind(args.oldObj.obj[1].v) # Kind(args.newObj.obj[1].v)
         => retval = <<Changed(KeyChars("example"), args.oldObj.obj[1].v,
                               args.newObj.obj[1].v)>>

----------------------------------------------------------------------------
(* lib/normalize-examples.js: isIdenticalAfterNormalizingTimestamps called   *)
(* on its own, on two documents that differ in at most two places           *)

Millis1 == <<"1", "7", "1", "1", "4", "7", "1", "5", "3", "3", "0", "0", "0">>
Digits14 == <<"1", "7", "1", "1", "4", "7", "1", "5", "3", "3", "0", "0", "0", "0">>
Digits2 == <<"4", "2">>
Iso1 == <<"2", "0", "2", "4", "-", "1", "2", "-", "3", "1", "T", "2", "3", ":", "5", "9", ":", "5", "9", "Z">>
Iso2 == <<"2", "0", "2", "5", "-", "0", "1", "-", "0", "1", "T", "0", "0", ":", "0", "0", ":", "0", "0", ".", "1", "2", "3", "+", "0", "0", ":", "0", "0">>
IsoLocal1 == <<"2", "0", "2", "4", "-", "1", "2", "-", "3", "1", "T", "2", "3", ":", "5", "9", ":", "5", "9">>
IsoLocal2 == <<"2", "0", "2", "5", "-", "0", "1", "-", "0", "1", "T", "0", "0", ":", "0", "0", ":", "0", "0">>
Word == <<"h", "i">>

\* A value of a document is described by its form and, for a string, by the
\* text before, the stamp and the text after: the string is their concatenation.
NumValue(digits) == [form |-> "num", prefix |-> <<>>, stamp |-> digits, suffix |-> <<>>]
StrValue(prefix, stamp, suffix) ==
  [form |-> "str", prefix |-> prefix, stamp |-> stamp, suffix |-> suffix]

NodeOf(value) ==
  IF value.form = "num" THEN Num(value.stamp)
  ELSE Str(value.prefix \o value.stamp \o value.suffix)

NumStamps == {Seconds1, Seconds2, Millis1, Digits14, Digits2}

StrStamps ==
  {Seconds1, Seconds2, Millis1, Digits14, Iso1, Iso2, IsoLocal1, IsoLocal2, Word,
   TimestampPlaceholder}

\* the text around the stamp of a string: nothing, a word and a space before
\* it, a letter right before it, a letter right after it
Surroundings ==
  {<< <<>>, <<>> >>, << <<"a", " ">>, <<>> >>, << <<"x">>, <<>> >>, << <<>>, <<"x">> >>}

InsideValues ==
  {NumValue(d) : d \in NumStamps}
  \cup {StrValue(around[1], stamp, around[2]) : around \in Surroundings, stamp \in StrStamps}

OutsideValues == {NumValue(Seconds1), NumValue(Seconds2), StrValue(<<>>, Word, <<>>)}

Shapes == {"example", "examples", "object"}

\* the example of the given shape that holds the node
ExampleEntry(shape, node) ==
  CASE shape = "example" -> [k |-> "example", v |-> node]
    [] shape = "examples" -> [k |-> "examples", v |-> Arr(<<node, Str(Word)>>)]
    [] shape = "object" ->
         [k |-> "example", v |-> Obj(<<[k |-> "b", v |-> Arr(<<node>>)]>>)]

\* { "a": { "example(s)": .. inside .., "type": outside } }
DocumentOf(shape, inside, outside) ==
  Obj(<<[k |-> "a",
         v |-> Obj(<<ExampleEntry(shape, NodeOf(inside)),
                     [k |-> "type", v |-> NodeOf(outside)]>>)]>>)

NormalizeInit ==
  /\ LedgerEmpty
  /\ NoClassifier
  /\ NoPipeline
  /\ changedRoutes = <<>>
  /\ stdout = <<>>
  /\ pc = "normalize"
  /\ retval = <<>>
  /\ \E shape \in Shapes, i1 \in InsideValues, i2 \in InsideValues,
        o2 \in OutsideValues :
       args = [shape |-> shape,
               old |-> [inside |-> i1, outside |-> NumValue(Seconds1)],
               new |-> [inside |-> i2, outside |-> o2]]

\* isIdenticalAfterNormalizingTimestamps(oldJson, newJson) on two JSON texts
CallNormalize ==
  /\ pc = "normalize"
  /\ retval' = isIdenticalAfterNormalizingTimestamps(
                 Json(DocumentOf(args.shape, args.old.inside, args.old.outside)),
                 Json(DocumentOf(args.shape, args.new.inside, args.new.outside)))
  /\ pc' = "returned"
  /\ UNCHANGED <<args, ledgerVars, analyzeVars, stdout, cacheVars, fetchVars, poolVars>>

NormalizeNext == CallNormalize

SpecNormalize == NormalizeInit /\ [][NormalizeNext]_vars

\* -- properties of the comparison after normalization --

\* a letter, a digit or an underscore
JoinsWord(c) == c \in Digits \cup {"a", "b", "h", "i", "x", "T", "Z", "_"}

\* the text around the stamp is the same in both values
SameSurroundings(v, w) == v.prefix = w.prefix /\ v.suffix = w.suffix

\* The stamp of the value stands between word boundaries
Delimited(value) ==
  /\ value.prefix = <<>> \/ ~JoinsWord(value.prefix[Len(value.prefix)])
  /\ value.suffix = <<>> \/ ~JoinsWord(value.suffix[1])

\* timestamp-shaped, in the words of the statement: an integer or a run of
\* 10 to 13 digits, a date-time of the form YYYY-MM-DDTHH:MM:SS[.mmm](Z|+-HH:MM)
TimestampShapedAsStated(value) ==
  \/ value.stamp \in {Seconds1, Seconds2, Millis1}
  \/ value.form = "str" /\ value.stamp \in {Iso1, Iso2}

\* "digits": an integer of 10 to 13 digits or a run of 10 to 13 digits between
\* word boundaries; "iso": a date-time of the form above; "none" otherwise
StampClass(value) ==
  CASE value.stamp \in {Seconds1, Seconds2, Millis1} /\ Delimited(value) -> "digits"
    [] value.form = "str" /\ value.stamp \in {Iso1, Iso2} -> "iso"
    [] OTHER -> "none"

HoldsPlaceholder(value) == value.stamp = TimestampPlaceholder

Returned == pc = "returned" /\ "shape" \in DOMAIN args

C17_OutsideExampleNeverIdentical ==
  (Returned /\ args.old.outside # args.new.outside) => retval = FALSE

\* the documents differ by an integer of 10 digits outside the example and by
\* nothing else, and they were reported different
C17_Witness ==
  /\ Returned
  /\ args.old.outside = NumValue(Seconds1)
  /\ args.new.outside = NumValue(Seconds2)
  /\ args.old.inside = args.new.inside
  /\ retval = FALSE

----------------------------------------------------------------------------
(* scripts/check-for-changes.js: buildBundledRoute called on its own, on an  *)
(* operation of a document whose nodes hold $ref pointers                    *)

PointerTo(name) == <<"#", "/", "c", "o", "m", "p", "o", "n", "e", "n", "t", "s", "/", "s", "c", "h", "e", "m", "a", "s", "/">> \o name

PointerA == PointerTo(<<"A">>)
PointerB == PointerTo(<<"B">>)
\* no schema of the documents has this name
PointerC == PointerTo(<<"C">>)
\* the first item of schema A, when A is an array or a string
PointerA0 == PointerTo(<<"A", "/", "0">>)
PointerAType == PointerTo(<<"A", "/", "t", "y", "p", "e">>)
PointerSchemas == <<"#", "/", "c", "o", "m", "p", "o", "n", "e", "n", "t", "s", "/", "s", "c", "h", "e", "m", "a", "s">>

Pointers == {PointerA, PointerB, PointerC, PointerA0, PointerAType, PointerSchemas}

RefTo(pointer) == Obj(<<[k |-> "$ref", v |-> Str(pointer)]>>)

StringSchema == Obj(<<[k |-> "type", v |-> Str(Chars_string)]>>)

\* a boolean schema is falsy when it is false, a number when it is 0
SchemasA ==
  {StringSchema, RefTo(PointerB), RefTo(PointerA), Arr(<<RefTo(PointerB), StringSchema>>),
   Str(Word), Bool(FALSE)}

SchemasB == {StringSchema, RefTo(PointerA), Bool(FALSE), Num(<<"0">>)}

Operations ==
  {StringSchema}
  \cup {Obj(<<[k |-> "schema", v |-> RefTo(p)]>>) : p \in Pointers}
  \cup {Obj(<<[k |-> "schema", v |-> Arr(<<RefTo(p), RefTo(q)>>)]>>) :
          p \in Pointers, q \in Pointers}
  \cup {Obj(<<[k |-> "$ref", v |-> Str(p)], [k |-> "type", v |-> Str(Chars_string)]>>) :
          p \in Pointers}
  \cup {Obj(<<[k |-> "components", v |-> RefTo(p)]>>) : p \in Pointers}

\* { components: { schemas: { A, B } }, paths: { "/v": { get: operation } } }
FullSpec(schemaA, schemaB, operation) ==
  Obj(<<[k |-> "components",
         v |-> Obj(<<[k |-> "schemas",
                      v |-> Obj(<<[k |-> "A", v |-> schemaA],
                                  [k |-> "B", v |-> schemaB]>>)]>>)],
        [k |-> "paths",
         v |-> Obj(<<[k |-> "/v", v |-> Obj(<<[k |-> "get", v |-> operation]>>)]>>)]>>)

BundleInit ==
  /\ LedgerEmpty
  /\ NoClassifier
  /\ NoPipeline
  /\ changedRoutes = <<>>
  /\ stdout = <<>>
  /\ pc = "bundle"
  /\ retval = <<>>
  /\ \E schemaA \in SchemasA, schemaB \in SchemasB, operation \in Operations :
       args = [operation |-> operation,
               fullSpec |-> FullSpec(schemaA, schemaB, operation)]

\* const bundled = buildBundledRoute(operation, schema)
CallBundle ==
  /\ pc = "bundle"
  /\ retval' = buildBundledRoute(args.operation, args.fullSpec)
  /\ pc' = "returned"
  /\ UNCHANGED <<args, ledgerVars, analyzeVars, stdout, cacheVars, fetchVars, poolVars>>

BundleNext == CallBundle

SpecBundle == BundleInit /\ [][BundleNext]_vars

\* -- properties of the bundled node --

\* the pointer strings that occur in the node
RECURSIVE PointersIn(_)
PointersIn(node) ==
  CASE Kind(node) = "arr" -> UNION {PointersIn(node.arr[i]) : i \in 1..Len(node.arr)}
    [] Kind(node) = "obj" ->
         UNION {IF node.obj[i].k = "$ref" /\ Kind(node.obj[i].v) = "str"
                THEN {node.obj[i].v.str}
                ELSE PointersIn(node.obj[i].v) : i \in 1..Len(node.obj)}
    [] OTHER -> {}

\* the value found by walking the slash-separated path of the pointer from root
RECURSIVE WalkFrom(_, _)
WalkFrom(node, parts) ==
  IF parts = <<>> \/ node = Undefined THEN node
  ELSE WalkFrom(Member(node, Head(parts)), Tail(parts))

PointerValue(root, pointer) == WalkFrom(root, Split(SubSeq(pointer, 3, Len(pointer)), "/"))

Bundled == pc = "returned" /\ "fullSpec" \in DOMAIN args /\ retval # Thrown

\* C18: every pointer string of the bundled node that resolves in the full
\* document resolves inside the bundled node, by the same path, to the same value.
C18_SelfContained ==
  Bundled =>
    \A pointer \in PointersIn(retval) :
      PointerValue(args.fullSpec, pointer) # Undefined
        => PointerValue(retval, pointer) = PointerValue(args.fullSpec, pointer)

\* the first segment of the pointer's path: the top-level key of the
\* auxiliary tree under which its value is placed
TopSegment(pointer) == Head(Split(SubSeq(pointer, 3, Len(pointer)), "/"))

HasKey(node, part) ==
  Kind(node) = "obj" /\ \E i \in 1..Len(node.obj) : KeyChars(node.obj[i].k) = part

\* the pointers of the operation that resolve to an object or an array, under
\* a top-level key that the operation has itself
Conflicting ==
  {pointer \in PointersIn(args.operation) :
     /\ Kind(PointerValue(args.fullSpec, pointer)) \in {"obj", "arr"}
     /\ HasKey(args.operation, TopSegment(pointer))}

\* C25 as stated: under a top-level key that the operation node and the tree
\* of inlined references both have, the bundled node holds the value of the
\* operation node.
C25_OriginalKeyKept ==
  Bundled =>
    \A pointer \in Conflicting :
      Member(retval, TopSegment(pointer)) = Member(args.operation, TopSegment(pointer))

\* C25: under a top-level key that the operation node and the tree of inlined
\* references both have, the bundled node holds the value of the tree of
\* inlined references, in which the pointer resolves as in the full
\* document, and not the value of the operation node.
C25_InlinedKeyKept ==
  Bundled =>
    \A pointer \in Conflicting :
      /\ PointerValue(retval, pointer) = PointerValue(args.fullSpec, pointer)
      /\ Member(retval, TopSegment(pointer)) # Member(args.operation, TopSegment(pointer))

C25_Witness ==
  /\ Bundled
  /\ Conflicting # {}
  /\ \E pointer \in Conflicting :
       Kind(Member(retval, TopSegment(pointer))) = "obj"

----------------------------------------------------------------------------
(* scripts/check-for-changes.js: steps 4 and 5 on a downloaded document      *)

MaxPaths == 2        \* paths of a downloaded document

PathKeys == {"/v", "/v?a", "/v_QMARK_a", "/v=a"}

\* the methods of a path, in the order of the downloaded document
MethodLists == {<<"get">>, <<"post", "get">>}

\* operation nodes: pairs that differ in the order of their keys and of their
\* references only, an extension key, an index as a key
SplitOperations ==
  {Obj(<<[k |-> "schema", v |-> RefTo(PointerA)], [k |-> "type", v |-> Str(Chars_string)]>>),
   Obj(<<[k |-> "type", v |-> Str(Chars_string)], [k |-> "schema", v |-> RefTo(PointerA)]>>),
   Obj(<<[k |-> "a", v |-> RefTo(PointerA)], [k |-> "b", v |-> RefTo(PointerB)]>>),
   Obj(<<[k |-> "b", v |-> RefTo(PointerB)], [k |-> "a", v |-> RefTo(PointerA)]>>),
   Obj(<<[k |-> "x-a", v |-> RefTo(PointerB)], [k |-> "type", v |-> Str(Chars_string)],
         [k |-> "0", v |-> Arr(<<RefTo(PointerA)>>)]>>),
   Obj(<<[k |-> "type", v |-> Str(Chars_string)], [k |-> "0", v |-> Arr(<<RefTo(PointerA)>>)]>>)}

\* the schemas of the documents; A refers to B
SplitSchemas ==
  {<<[k |-> "A", v |-> Obj(<<[k |-> "type", v |-> Str(Chars_integer)],
                             [k |-> "b", v |-> RefTo(PointerB)]>>)],
     [k |-> "B", v |-> Op(Chars_integer, Num(Seconds1))]>>,
   <<[k |-> "B", v |-> Op(Chars_integer, Num(Seconds1))],
     [k |-> "A", v |-> Obj(<<[k |-> "b", v |-> RefTo(PointerB)],
                             [k |-> "type", v |-> Str(Chars_integer)]>>)]>>}

\* injective sequences of at most MaxPaths path keys
PathLists ==
  {keys \in UNION {[1..n -> PathKeys] : n \in 0..MaxPaths} :
     \A i \in 1..Len(keys), j \in 1..Len(keys) : i # j => keys[i] # keys[j]}

\* { paths: { path: { method: operation } }, components: { schemas } } where
\* every path has the given methods and the operations of the i-th path are
\* operations[i]
Document(keys, methods, operations, schemas) ==
  Obj(<<[k |-> "paths",
         v |-> Obj([i \in 1..Len(keys) |->
                      [k |-> keys[i],
                       v |-> Obj([j \in 1..Len(methods) |->
                                    [k |-> methods[j], v |-> operations[i]]])]])],
        [k |-> "components", v |-> Obj(<<[k |-> "schemas", v |-> Obj(schemas)]>>)]>>)

SplitInit ==
  /\ LedgerEmpty
  /\ NoClassifier
  /\ NoPipeline
  /\ changedRoutes = <<>>
  /\ stdout = <<>>
  /\ pc = "sort"
  /\ retval = <<>>
  /\ \E keys \in PathLists, schemas \in SplitSchemas, methods \in MethodLists :
       \E operations \in [1..Len(keys) -> SplitOperations] :
         args = [specContent |-> Document(keys, methods, operations, schemas)]

\* step 4: the document file with sorted keys
SortStep ==
  /\ pc = "sort"
  /\ retval' = [specFile |-> SortKeys(args.specContent)]
  /\ pc' = "split"
  /\ UNCHANGED <<args, ledgerVars, analyzeVars, stdout, cacheVars, fetchVars, poolVars>>

\* step 5: schema, newRoutes and the route files written
SplitStep ==
  /\ pc = "split"
  /\ LET schema == removeXPrefix(Parse(retval.specFile))
     IN retval' = [specFile |-> retval.specFile,
                   newRoutes |-> SplitInto(schema, PathEntries(schema), <<>>),
                   written |-> WrittenFiles(schema)]
  /\ pc' = "returned"
  /\ UNCHANGED <<args, ledgerVars, analyzeVars, stdout, cacheVars, fetchVars, poolVars>>

SplitNext == SortStep \/ SplitStep

SpecSplit == SplitInit /\ [][SplitNext]_vars

\* -- properties of the route units --

\* the [path, method] pairs under paths of the downloaded document
PairsOf(document) ==
  LET paths == Member(document, KeyChars("paths")).obj
  IN UNION {{<<KeyChars(paths[i].k), KeyChars(paths[i].v.obj[j].k)>> :
               j \in 1..Len(paths[i].v.obj)} : i \in 1..Len(paths)}

\* the path with every ? and = replaced by its token
RECURSIVE Escaped(_)
Escaped(path) ==
  IF path = <<>> THEN <<>>
  ELSE (CASE Head(path) = "?" -> QMARK [] Head(path) = "=" -> EQ [] OTHER -> <<Head(path)>>)
         \o Escaped(Tail(path))

\* the escaped path without its leading slash, followed by /<method>.json
IdentifierOf(pair) == Tail(Escaped(pair[1])) \o <<"/">> \o pair[2] \o DotJson

SplitDone == pc = "returned" /\ "specContent" \in DOMAIN args

\* C19: splitting yields one unit for each [path, method] pair and no other,
\* under the identifier made of the escaped path and the method, and two
\* distinct pairs never have the same identifier.
C19_OneUnitPerPair ==
  SplitDone =>
    LET pairs == PairsOf(args.specContent)
        units == retval.newRoutes
    IN /\ Len(units) = Cardinality(pairs)
       /\ {units[i].k : i \in 1..Len(units)} = {IdentifierOf(pair) : pair \in pairs}
       /\ \A p \in pairs, q \in pairs : p # q => IdentifierOf(p) # IdentifierOf(q)

\* the operation node of the pair in the downloaded document
OperationOf(document, pair) ==
  LET paths == Member(document, KeyChars("paths"))
  IN Member(Member(paths, pair[1]), pair[2])

\* the text of the route file written for the pair
TextOf(written, pair) ==
  written[CHOOSE i \in 1..Len(written) :
            written[i].path = pair[1] /\ written[i].method = pair[2]].text

\* C20: two operation nodes with the same keys and values, in whatever order
\* their keys and references stand in the downloaded document, are written
\* as byte-identical route files.
C20_CanonicalContent ==
  SplitDone =>
    \A p \in PairsOf(args.specContent), q \in PairsOf(args.specContent) :
      StructurallyEqual(OperationOf(args.specContent, p), OperationOf(args.specContent, q))
        => TextOf(retval.written, p) = TextOf(retval.written, q)

\* two operations that refer to schemas A and B in opposite key order were
\* written as the same text
C20_Witness ==
  /\ SplitDone
  /\ \E p \in PairsOf(args.specContent), q \in PairsOf(args.specContent) :
       /\ OperationOf(args.specContent, p) # OperationOf(args.specContent, q)
       /\ PointersIn(OperationOf(args.specContent, p)) = {PointerA, PointerB}
       /\ StructurallyEqual(OperationOf(args.specContent, p),
                            OperationOf(args.specContent, q))
       /\ TextOf(retval.written, p) = TextOf(retval.written, q)

----------------------------------------------------------------------------
(* scripts/create-release.js: run, from the labels of the merged pull        *)
(* request and the tags of the repository to the new tag                     *)

MaxTags == 2         \* tags of the repository

DigitList == <<"0", "1", "2", "3", "4", "5", "6", "7", "8", "9">>

\* String(n) for a natural number
RECURSIVE NatChars(_)
NatChars(n) ==
  IF n < 10 THEN <<DigitList[n + 1]>>
  ELSE NatChars(n \div 10) \o <<DigitList[(n % 10) + 1]>>

DigitValue(c) == (CHOOSE i \in 1..10 : DigitList[i] = c) - 1

\* Number(s) for a string of decimal digits
RECURSIVE DecimalValue(_)
DecimalValue(s) ==
  IF s = <<>> THEN 0
  ELSE 10 * DecimalValue(SubSeq(s, 1, Len(s) - 1)) + DigitValue(s[Len(s)])

\* Number(parts[i]) || 0 for the strings of the model, which hold no sign, no
\* space and no exponent: undefined and "" and a string that is no number give 0
ComponentAt(parts, i) ==
  IF i > Len(parts) THEN 0
  ELSE IF AllDigits(parts[i], 1, Len(parts[i])) THEN DecimalValue(parts[i])
  ELSE 0

ProviderPrefix == <<"p", "r", "o", "v", "i", "d", "e", "r", ":">>
VersionPrefix == <<"v", "e", "r", "s", "i", "o", "n", ":">>

\* labels.find(label => label.startsWith(prefix)), <<>> for undefined
FindLabel(labels, prefix) ==
  IF \E i \in 1..Len(labels) : StartsWithAt(labels[i], 1, prefix)
  THEN labels[CHOOSE i \in 1..Len(labels) :
                /\ StartsWithAt(labels[i], 1, prefix)
                /\ \A j \in 1..(i - 1) : ~StartsWithAt(labels[j], 1, prefix)]
  ELSE <<>>

\* tag.name.startsWith(`${provider}@`)
IsProviderTag(name, provider) == StartsWithAt(name, 1, provider \o <<"@">>)

\* the map callback over the tags of the provider
ParseTag(name, provider) ==
  LET version == ReplaceFirst(name, provider \o <<"@">>, <<>>)
      parts == Split(version, ".")
  IN [tag |-> name, version |-> version, major |-> ComponentAt(parts, 1),
      minor |-> ComponentAt(parts, 2), patch |-> ComponentAt(parts, 3)]

\* the comparator of the sort: negative when a goes before b
CompareVersions_Ascending(a, b) ==
  IF a.major # b.major THEN a.major - b.major
  ELSE IF a.minor # b.minor THEN a.minor - b.minor
  ELSE a.patch - b.patch

CompareVersions(a, b) ==
  IF a.major # b.major THEN b.major - a.major
  ELSE IF a.minor # b.minor THEN b.minor - a.minor
  ELSE b.patch - a.patch

\* Array.prototype.sort with the comparator: stable
RECURSIVE InsertTag(_, _), SortTags(_)
InsertTag(sorted, t) ==
  IF sorted = <<>> THEN <<t>>
  ELSE IF CompareVersions(t, Head(sorted)) < 0 THEN <<t>> \o sorted
  ELSE <<Head(sorted)>> \o InsertTag(Tail(sorted), t)

SortTags(tags) ==
  IF tags = <<>> THEN <<>>
  ELSE InsertTag(SortTags(SubSeq(tags, 1, Len(tags) - 1)), tags[Len(tags)])

ProviderTags(tags, provider) ==
  LET own == SelectSeq(tags, LAMBDA name : IsProviderTag(name, provider))
  IN SortTags([i \in 1..Len(own) |-> ParseTag(own[i], provider)])

Breaking == <<"b", "r", "e", "a", "k", "i", "n", "g">>
Feature == <<"f", "e", "a", "t", "u", "r", "e">>
Fix == <<"f", "i", "x">>

FormatVersion(major, minor, patch) ==
  NatChars(major) \o <<".">> \o NatChars(minor) \o <<".">> \o NatChars(patch)

\* newVersion, or <<>> where the switch throws
NewVersion(providerTags, versionType) ==
  IF providerTags = <<>> THEN <<"1", ".", "0", ".", "0">>
  ELSE LET latest == providerTags[1]
       IN CASE versionType = Breaking -> FormatVersion(latest.major + 1, 0, 0)
            [] versionType = Feature -> FormatVersion(latest.major, latest.minor + 1, 0)
            [] versionType = Fix ->
                 FormatVersion(latest.major, latest.minor, latest.patch + 1)
            [] OTHER -> <<>>

\* run(event, core, octokit): what it logs last and how it ends.  The request
\* that creates the tag names the undeclared variables owner and repo.
run(event, tags) ==
  LET providerLabel == FindLabel(event.labels, ProviderPrefix)
      versionLabel == FindLabel(event.labels, VersionPrefix)
      provider == SubSeq(providerLabel, Len(ProviderPrefix) + 1, Len(providerLabel))
      versionType == SubSeq(versionLabel, Len(VersionPrefix) + 1, Len(versionLabel))
      newVersion == NewVersion(ProviderTags(tags, provider), versionType)
  IN IF ~event.merged THEN [skipped |-> "not merged"]
     ELSE IF providerLabel = <<>> THEN [skipped |-> "no provider label"]
     ELSE IF versionLabel = <<>> THEN [skipped |-> "no version label"]
     ELSE IF newVersion = <<>> THEN [threw |-> "Unknown version type"]
     ELSE [newTag |-> provider \o <<"@">> \o newVersion, threw |-> "ReferenceError"]

VersionTexts ==
  {<<"1">>, <<"1", ".", "0">>, <<"1", ".", "2", ".", "3">>,
   <<"1", ".", "1", "0", ".", "0">>, <<"1", ".", "9", ".", "9">>,
   <<"2", ".", "0", ".", "0">>, <<"0", ".", "0", ".", "9">>}

\* the provider of the pull request and one whose name starts with its name
TagNames == {p \o <<"@">> \o v : p \in {<<"a">>, <<"a", "b">>}, v \in VersionTexts}

LabelLists ==
  {<<>>, <<ProviderPrefix \o <<"a">> >>}
  \cup {<<ProviderPrefix \o <<"a">>, VersionPrefix \o t>> :
          t \in {Breaking, Feature, Fix, <<"x">>}}

ReleaseInit ==
  /\ LedgerEmpty
  /\ NoClassifier
  /\ NoPipeline
  /\ changedRoutes = <<>>
  /\ stdout = <<>>
  /\ pc = "release"
  /\ retval = <<>>
  /\ \E merged \in BOOLEAN, labels \in LabelLists,
        tags \in UNION {[1..n -> TagNames] : n \in 0..MaxTags} :
       args = [event |-> [merged |-> merged, labels |-> labels], tags |-> tags]

RunRelease ==
  /\ pc = "release"
  /\ retval' = run(args.event, args.tags)
  /\ pc' = "returned"
  /\ UNCHANGED <<args, ledgerVars, analyzeVars, stdout, cacheVars, fetchVars, poolVars>>

ReleaseNext == RunRelease

SpecRelease == ReleaseInit /\ [][ReleaseNext]_vars

\* -- properties of the new version --

\* the version that a tag name of the model stands for, a missing minor or
\* patch component read as 0
VersionOf(name) ==
  LET v == Split(name, "@")[2]
  IN CASE v = <<"1">> -> <<1, 0, 0>>
       [] v = <<"1", ".", "0">> -> <<1, 0, 0>>
       [] v = <<"1", ".", "2", ".", "3">> -> <<1, 2, 3>>
       [] v = <<"1", ".", "1", "0", ".", "0">> -> <<1, 10, 0>>
       [] v = <<"1", ".", "9", ".", "9">> -> <<1, 9, 9>>
       [] v = <<"2", ".", "0", ".", "0">> -> <<2, 0, 0>>
       [] v = <<"0", ".", "0", ".", "9">> -> <<0, 0, 9>>

Precedes(v, w) ==
  \/ v[1] < w[1]
  \/ v[1] = w[1] /\ v[2] < w[2]
  \/ v[1] = w[1] /\ v[2] = w[2] /\ v[3] < w[3]

\* the versions of the tags of provider a
OwnVersions(tags) ==
  {VersionOf(tags[i]) : i \in {j \in 1..Len(tags) : Split(tags[j], "@")[1] = <<"a">>}}

Highest(versions) == CHOOSE v \in versions : \A w \in versions : ~Precedes(v, w)

Bumped(v, versionType) ==
  CASE versionType = Breaking -> <<v[1] + 1, 0, 0>>
    [] versionType = Feature -> <<v[1], v[2] + 1, 0>>
    [] versionType = Fix -> <<v[1], v[2], v[3] + 1>>

Released == pc = "returned" /\ "tags" \in DOMAIN args

\* C21: the new version is the highest version among the tags of the provider,
\* the tags of other providers ignored and missing components read as 0, with
\* major, minor or patch raised as the label says.
C21_NextVersion ==
  Released =>
    \A versionType \in {Breaking, Feature, Fix} :
      (/\ args.event.merged
       /\ args.event.labels = <<ProviderPrefix \o <<"a">>, VersionPrefix \o versionType>>
       /\ OwnVersions(args.tags) # {})
        => LET v == Bumped(Highest(OwnVersions(args.tags)), versionType)
           IN /\ "newTag" \in DOMAIN retval
              /\ retval.newTag = <<"a", "@">> \o FormatVersion(v[1], v[2], v[3])

\* the highest tag of the provider lacks minor and patch, a higher tag belongs
\* to another provider, and the fix release is 1.0.1
C21_Witness ==
  /\ Released
  /\ args.event.merged
  /\ args.event.labels = <<ProviderPrefix \o <<"a">>, VersionPrefix \o Fix>>
  /\ args.tags = << <<"a", "b", "@", "2", ".", "0", ".", "0">>, <<"a", "@", "1">> >>
  /\ "newTag" \in DOMAIN retval
  /\ retval.newTag = <<"a", "@", "1", ".", "0", ".", "1">>

----------------------------------------------------------------------------
(* scripts/check-for-changes.js: a run over stored routes, with the jobs of  *)
(* the event loop and the pending generation calls taken up eventually       *)

RollingInit == Init

\* the run downloads a document at the first attempt
RollingNext ==
  \/ Start
  \/ \E doc \in {DocAll, DocMixed} : Fetch("ok", doc)
  \/ Process
  \/ Dispatch
  \/ \E i \in DOMAIN task, outcome \in GenOutcomes : Settle(i, outcome)
  \/ \E i \in DOMAIN task : ThenCallback(i)
  \/ RaceResume
  \/ AllResume
  \/ AppendStep(0)
  \/ Output

\* Dispatch as the loop counter shows it: the loop is at an item and the item
\* is taken
TakeItem == pc = "loop" /\ next' = next + 1

\* the synchronous code of the loop goes on, a job in the microtask queue
\* runs, and the loop resumes when its await has ended; whether a pending
\* generation call settles is up to the service
SpecRolling ==
  /\ RollingInit
  /\ [][RollingNext]_vars
  /\ WF_next(TakeItem)
  /\ WF_vars(RaceResume)
  /\ WF_vars(AllResume)
  /\ WF_vars(\E i \in DOMAIN task : ThenCallback(i))

\* -- properties of the rolling window --

\* the limit was reached, units remain, and one call has completed
WindowReopened ==
  /\ pc = "race"
  /\ race = "fulfilled"
  /\ next <= Len(changedRoutes)

AllDispatchedOnce ==
  /\ next = Len(changedRoutes) + 1
  /\ results = [k \in 1..Len(changedRoutes) |-> k]

\* every call completes, and none fails
CallsComplete ==
  /\ []<>(InFlight = {})
  /\ [](~ SomeRejected(promise, DOMAIN promise))

\* C22: when the limit is reached and units remain, the completion of one
\* call leads to the dispatch of the next unit, and from that completion to
\* the dispatch no call in flight completes; and if every call completes
\* successfully, every unit is eventually dispatched, each once.
C22_RollingWindow ==
  /\ \A n \in (Limit + 1)..(MaxRoutes + 1) :
       (WindowReopened /\ next = n) ~> (next = n + 1 /\ promise[n] = "pending")
  /\ [][WindowReopened \/ pc = "loop" => InFlight \subseteq InFlight']_vars
  /\ CallsComplete
       => ((pc = "loop" /\ next = 1) ~> AllDispatchedOnce)

\* unit 6 is dispatched while four of the first five calls are in flight
C22_Witness ==
  /\ next = Limit + 2
  /\ promise[Limit + 1] = "pending"
  /\ Cardinality(InFlight \ {Limit + 1}) = Limit - 1
  /\ \E i \in 1..Limit : promise[i] = "resolved" /\ task[i].calls = <<>>

----------------------------------------------------------------------------
(* scripts/lib/append-changes.js: two appendChanges calls whose awaits       *)
(* interleave, as made by two processes or by two calls that are not awaited *)

Runs == {1, 2}

\* a call after its grouping loop: byRoute, the entry its second loop is at,
\* and whether the next await of that entry is readFile or writeFile
RunOf(changes) ==
  LET byRoute == IF Len(changes) = 0 THEN <<>>
                 ELSE GroupByRoute(Provider, changes, <<>>)
  IN [byRoute |-> byRoute, i |-> 1, existing |-> <<>>,
      st |-> IF byRoute = <<>> THEN "returned" ELSE "read"]

\* the records of run r are numbered apart from those of the other run
RECURSIVE Renumbered(_, _)
Renumbered(changes, offset) ==
  IF changes = <<>> THEN <<>>
  ELSE <<[Head(changes) EXCEPT !.note = @ + offset]>>
         \o Renumbered(Tail(changes), offset)

StoredLedgers ==
  { << >>,
    [k \in {FilePath(Provider, RouteGetA)} |-> <<[note |-> 0]>>] }

InterleaveInit ==
  /\ \E c1, c2 \in ChangeLists(0, MaxChanges) :
       /\ args = <<c1, Renumbered(c2, MaxChanges)>>
       /\ retval = <<RunOf(c1), RunOf(Renumbered(c2, MaxChanges))>>
  /\ ledger \in StoredLedgers
  /\ prevLedger = ledger
  /\ callLog = <<>>
  /\ lastOutcome = "none"
  /\ NoClassifier
  /\ NoPipeline
  /\ changedRoutes = <<>>
  /\ stdout = <<>>
  /\ pc = "append-changes"

AfterStep(runs) ==
  IF \A r \in Runs : runs[r].st = "returned" THEN "returned" ELSE "append-changes"

\* run r: existing = yaml.load(await readFile(filePath)) || []
ReadStep(r) ==
  /\ retval[r].st = "read"
  /\ LET e == retval[r].byRoute[retval[r].i]
         runs == [retval EXCEPT ![r].existing = ReadExisting(ledger, e.filePath),
                                ![r].st = "write"]
     IN /\ retval' = runs
        /\ callLog' = Append(callLog, [run |-> r, op |-> "read", filePath |-> e.filePath])
        /\ pc' = AfterStep(runs)
  /\ UNCHANGED <<args, ledger, prevLedger, lastOutcome, analyzeVars, stdout, cacheVars,
                 fetchVars, poolVars>>

\* run r: await writeFile(filePath, yaml.dump([...existing, ...records]))
WriteStep(r) ==
  /\ retval[r].st = "write"
  /\ LET e == retval[r].byRoute[retval[r].i]
         runs == [retval EXCEPT ![r].i = @ + 1,
                                ![r].existing = <<>>,
                                ![r].st = IF retval[r].i = Len(retval[r].byRoute)
                                          THEN "returned" ELSE "read"]
     IN /\ ledger' = WriteMerged(ledger, e.filePath, retval[r].existing, e.records)
        /\ retval' = runs
        /\ callLog' = Append(callLog, [run |-> r, op |-> "write", filePath |-> e.filePath])
        /\ pc' = AfterStep(runs)
  /\ UNCHANGED <<args, prevLedger, lastOutcome, analyzeVars, stdout, cacheVars,
                 fetchVars, poolVars>>

InterleaveNext == \E r \in Runs : ReadStep(r) \/ WriteStep(r)

SpecInterleave == InterleaveInit /\ [][InterleaveNext]_vars

\* -- properties of interleaved appends --

\* the position in the log of run r's read or write of the file
StepAt(r, op, filePath) ==
  CHOOSE n \in 1..Len(callLog) :
    callLog[n] = [run |-> r, op |-> op, filePath |-> filePath]

RunRecords(r, filePath) ==
  LET byRoute == retval[r].byRoute
  IN IF \E i \in 1..Len(byRoute) : byRoute[i].filePath = filePath
     THEN byRoute[CHOOSE i \in 1..Len(byRoute) : byRoute[i].filePath = filePath].records
     ELSE <<>>

SharedKeys ==
  {k \in DOMAIN ledger : RunRecords(1, k) # <<>> /\ RunRecords(2, k) # <<>>}

\* both runs read the file before either writes it
Interleaved(k) ==
  \A r, q \in Runs : StepAt(r, "read", k) < StepAt(q, "write", k)

Holds(stored, records) ==
  \A i \in 1..Len(records) : \E j \in 1..Len(stored) : stored[j] = records[i]

BothReturned == pc = "returned"

\* C23: after two appendChanges runs that write the same file, the file lacks
\* the records of one run if both runs read it before either wrote it, and it
\* holds the earlier records and the records of both runs otherwise.
C23_LostUpdateIffInterleaved ==
  BothReturned =>
    \A k \in SharedKeys :
      LET before == ReadExisting(prevLedger, k)
      IN IF Interleaved(k)
         THEN \E r \in Runs :
                /\ ledger[k] = before \o RunRecords(r, k)
                /\ ~ Holds(ledger[k], RunRecords(3 - r, k))
         ELSE /\ Holds(ledger[k], before)
              /\ Holds(ledger[k], RunRecords(1, k))
              /\ Holds(ledger[k], RunRecords(2, k))
              /\ Len(ledger[k]) = Len(before) + Len(RunRecords(1, k)) + Len(RunRecords(2, k))

\* both kinds of run happen: a file written in turn and a file read twice
\* before it was written
C23_Witness ==
  /\ BothReturned
  /\ \E k \in SharedKeys : Interleaved(k) /\ Len(ledger[k]) < Len(ReadExisting(prevLedger, k)) + 2
  /\ \E k \in SharedKeys : ~ Interleaved(k)

----------------------------------------------------------------------------
(* lib/analyze-route-change.js: the prompts of the three tiers               *)

DocKeys == {"description", "example", "examples"}

\* stripDocsFromSpec(obj)
RECURSIVE stripDocsFromSpec(_)
stripDocsFromSpec(obj) ==
  CASE Kind(obj) = "arr" -> Arr([i \in 1..Len(obj.arr) |-> stripDocsFromSpec(obj.arr[i])])
    [] Kind(obj) = "obj" ->
         LET kept == SelectSeq(obj.obj, LAMBDA e : e.k \notin DocKeys)
         IN Obj([i \in 1..Len(kept) |-> [k |-> kept[i].k, v |-> stripDocsFromSpec(kept[i].v)]])
    [] OTHER -> obj

\* a prompt: the fixed wording of one of the four templates, with the route
\* and the texts that the template embeds
Prompt(template, route, texts) == [template |-> template, route |-> route, texts |-> texts]

SyntaxError == [threw |-> "SyntaxError"]

\* the text of a content string; the empty string for empty content
TextOfContent(content) == IF NonEmpty(content) THEN ContentText(content) ELSE <<>>

buildPrompt(status, route, oldSpec, newSpec) ==
  IF status = "A" THEN Prompt("added", route, <<newSpec>>)
  ELSE IF status = "D" THEN Prompt("removed", route, <<oldSpec>>)
  ELSE Prompt("modified", route, <<oldSpec, newSpec>>)

\* JSON.stringify(stripDocsFromSpec(JSON.parse(content)), null, 2)
Stripped(content) == StringifyIndented(stripDocsFromSpec(content.tree), 0)

\* the prompt of tier 2
StrippedPrompt(status, route, oldContent, newContent) ==
  IF \/ NonEmpty(oldContent) /\ ~ Parses(oldContent)
     \/ NonEmpty(newContent) /\ ~ Parses(newContent)
  THEN SyntaxError
  ELSE buildPrompt(status, route,
                   IF NonEmpty(oldContent) THEN Stripped(oldContent) ELSE <<>>,
                   IF NonEmpty(newContent) THEN Stripped(newContent) ELSE <<>>)

\* U+2192, one character of the CHANGED line
Arrow == "->"

DiffLine(d) ==
  IF d.type = "added"
  THEN <<"A", "D", "D", "E", "D", " ">> \o d.path \o <<":", " ">> \o d.new
  ELSE IF d.type = "removed"
  THEN <<"R", "E", "M", "O", "V", "E", "D", " ">> \o d.path \o <<":", " ">> \o d.old
  ELSE <<"C", "H", "A", "N", "G", "E", "D", " ">> \o d.path \o <<":", " ">> \o d.old
         \o <<" ", Arrow, " ">> \o d.new

buildDiffPrompt(status, route, oldContent, newContent) ==
  IF status # "M"
  THEN LET spec == IF status = "A" THEN newContent ELSE oldContent
       IN IF ~ Parses(spec) THEN SyntaxError
          ELSE buildPrompt(status, route,
                           IF status = "D" THEN Stripped(spec) ELSE <<>>,
                           IF status = "A" THEN Stripped(spec) ELSE <<>>)
  ELSE IF ~ Parses(oldContent) \/ ~ Parses(newContent) THEN SyntaxError
  ELSE LET diffs == computeStructuralDiff(oldContent.tree, newContent.tree, <<>>, FALSE)
           diffText == Join([i \in 1..Len(diffs) |-> DiffLine(diffs[i])], <<"\n">>)
       IN Prompt("diff", route, <<NatChars(Len(diffs)), diffText>>)

PromptContents == SampleContents \cup {Json(StringSchema), Json(Obj(<<>>))}

PromptInputs ==
  { [status |-> "A", route |-> r, oldContent |-> EmptyContent, newContent |-> n] :
      r \in {RouteGetA, RoutePostB}, n \in PromptContents }
  \cup
  { [status |-> "D", route |-> r, oldContent |-> o, newContent |-> EmptyContent] :
      r \in {RouteGetA, RoutePostB}, o \in PromptContents }
  \cup
  { [status |-> "M", route |-> r, oldContent |-> o, newContent |-> n] :
      r \in {RouteGetA, RoutePostB}, o \in PromptContents, n \in PromptContents }

PromptInit ==
  /\ LedgerEmpty
  /\ NoClassifier
  /\ NoPipeline
  /\ changedRoutes = <<>>
  /\ stdout = <<>>
  /\ pc = "tier1"
  /\ retval = <<>>
  /\ args \in PromptInputs

\* const prompt = buildPrompt(status, route, oldContent, newContent)
BuildTier1 ==
  /\ pc = "tier1"
  /\ retval' = <<buildPrompt(args.status, args.route, TextOfContent(args.oldContent),
                             TextOfContent(args.newContent))>>
  /\ pc' = "tier2"
  /\ UNCHANGED <<args, ledgerVars, analyzeVars, stdout, cacheVars, fetchVars, poolVars>>

\* the first call failed on the size: const strippedPrompt = buildPrompt(...)
BuildTier2 ==
  /\ pc = "tier2"
  /\ retval' = Append(retval, StrippedPrompt(args.status, args.route, args.oldContent,
                                             args.newContent))
  /\ pc' = "tier3"
  /\ UNCHANGED <<args, ledgerVars, analyzeVars, stdout, cacheVars, fetchVars, poolVars>>

\* the second call failed on the size: const diffPrompt = buildDiffPrompt(...)
BuildTier3 ==
  /\ pc = "tier3"
  /\ retval' = Append(retval, buildDiffPrompt(args.status, args.route, args.oldContent,
                                              args.newContent))
  /\ pc' = "returned"
  /\ UNCHANGED <<args, ledgerVars, analyzeVars, stdout, cacheVars, fetchVars, poolVars>>

PromptNext == BuildTier1 \/ BuildTier2 \/ BuildTier3

SpecPrompt == PromptInit /\ [][PromptNext]_vars

\* -- properties of the prompts --

\* text is found inside whole
Within(text, whole) ==
  \E i \in 0..(Len(whole) - Len(text)) : SubSeq(whole, i + 1, i + Len(text)) = text

Prompted == pc = "returned" /\ "status" \in DOMAIN args /\ Len(retval) = 3

\* the content of a side, whole or stripped, is embedded in the prompt
EmbedsContent(prompt, content) ==
  /\ NonEmpty(content)
  /\ \E i \in 1..Len(prompt.texts) :
       \/ Within(Stripped(content), prompt.texts[i])
       \/ Within(StringifyIndented(content.tree, 0), prompt.texts[i])

\* C26: the prompt of tier 3 is the diff prompt and embeds neither side's
\* content, for every status; for the statuses A and D it differs from the
\* prompt of tier 2.
C26_TierThreeIsDiffOnly ==
  Prompted =>
    /\ retval[3].template = "diff"
    /\ ~ EmbedsContent(retval[3], args.oldContent)
    /\ ~ EmbedsContent(retval[3], args.newContent)
    /\ args.status \in {"A", "D"} => retval[3] # retval[2]

----------------------------------------------------------------------------
(* scripts/check-for-changes.js: collectRefsTransitively, one iteration of   *)
(* its while loop at a time                                                  *)

MaxScans == 8        \* iterations of the while loop in one behaviour

CollectInit ==
  /\ LedgerEmpty
  /\ NoClassifier
  /\ NoPipeline
  /\ changedRoutes = <<>>
  /\ stdout = <<>>
  /\ pc = "findRefs"
  /\ retval = <<>>
  /\ \E schemaA \in SchemasA, schemaB \in SchemasB, operation \in Operations :
       args = [root |-> FullSpec(schemaA, schemaB, operation), obj |-> operation]

\* refs, visited and queue are made, and findRefs(obj) is called
ScanOperation ==
  /\ pc = "findRefs"
  /\ retval' = [found |-> findRefs(args.obj, [visited |-> {}, queue |-> <<>>]),
                refs |-> <<>>, scanned |-> <<>>]
  /\ pc' = "while"
  /\ UNCHANGED <<args, ledgerVars, analyzeVars, stdout, cacheVars, fetchVars, poolVars>>

\* one iteration of while (queue.length > 0); callLog lists the pointer
\* strings handed to resolveRef, scanned those whose value went to findRefs
DrainStep ==
  /\ pc = "while"
  /\ retval.found.queue # <<>>
  /\ Len(callLog) < MaxScans
  /\ callLog' = Append(callLog, Head(retval.found.queue))
  /\ LET refPath == Head(retval.found.queue)
         rest == [retval.found EXCEPT !.queue = Tail(retval.found.queue)]
         resolved == resolveRef(args.root, refPath)
     IN retval' =
          IF IsResolved(resolved)
          THEN [found |-> findRefs(resolved, rest),
                refs |-> MapSet(retval.refs, refPath, resolved),
                scanned |-> Append(retval.scanned, refPath)]
          ELSE [retval EXCEPT !.found = rest]
  /\ UNCHANGED <<pc, args, ledger, prevLedger, lastOutcome, analyzeVars, stdout, cacheVars,
                 fetchVars, poolVars>>

\* return refs
CollectReturn ==
  /\ pc = "while"
  /\ retval.found.queue = <<>>
  /\ pc' = "returned"
  /\ UNCHANGED <<callVars, ledgerVars, analyzeVars, stdout, cacheVars, fetchVars, poolVars>>

CollectNext == ScanOperation \/ DrainStep \/ CollectReturn

\* the steps as the position and the log show them
Enter == pc = "findRefs" /\ pc' = "while"

Iterate ==
  /\ pc = "while"
  /\ retval.found.queue # <<>>
  /\ Len(callLog) < MaxScans
  /\ callLog' = Append(callLog, Head(retval.found.queue))

Leave == pc = "while" /\ retval.found.queue = <<>> /\ pc' = "returned"

\* the call is synchronous code: it runs on until it returns
SpecCollect ==
  /\ CollectInit
  /\ [][CollectNext]_vars
  /\ WF_pc(Enter)
  /\ WF_callLog(Iterate)
  /\ WF_pc(Leave)

\* -- properties of the collection of references --

NoRepeat(list) == \A i, j \in 1..Len(list) : i # j => list[i] # list[j]

\* C27: collectRefsTransitively returns, also for documents whose references
\* form a cycle or repeat, and no pointer string is resolved or scanned twice.
C27_TerminatesScanningOnce ==
  /\ <>(pc = "returned")
  /\ [](NoRepeat(callLog))
  /\ [](pc # "findRefs" => NoRepeat(retval.scanned))

\* schema A refers to B and B to A, the operation refers to A twice, and the
\* call has returned
C27_Witness ==
  /\ pc = "returned"
  /\ "root" \in DOMAIN args
  /\ PointerValue(args.root, PointerA) = RefTo(PointerB)
  /\ PointerValue(args.root, PointerB) = RefTo(PointerA)
  /\ args.obj = Obj(<<[k |-> "schema", v |-> Arr(<<RefTo(PointerA), RefTo(PointerA)>>)]>>)
  /\ retval.scanned = <<PointerA, PointerB>>
  /\ callLog = <<PointerA, PointerB>>

----------------------------------------------------------------------------
(* lib/analyze-route-change.js: computeStructuralDiff on values whose        *)
(* serialized form is about as long as the limit of summarizeValue           *)

\* a string of n characters c
Repeated(n, c) == [i \in 1..n |-> c]

SummaryLengths == (0..2) \cup ((SummaryLimit - 6)..(SummaryLimit + 4))

LongValues ==
  {Null, Bool(TRUE), Num(<<"1">>)}
  \cup {Str(Repeated(n, "a")) : n \in SummaryLengths}
  \cup {Arr(<<Str(Repeated(n, "a"))>>) : n \in SummaryLengths}
  \cup {Obj(<<[k |-> "a", v |-> Str(Repeated(n, "a"))]>>) : n \in SummaryLengths}

SummaryInit ==
  /\ LedgerEmpty
  /\ NoClassifier
  /\ NoPipeline
  /\ changedRoutes = <<>>
  /\ stdout = <<>>
  /\ pc = "diff"
  /\ retval = <<>>
  /\ \E oldObj \in LongValues, newObj \in {Null, Str(<<"b">>), Arr(<<>>), Obj(<<>>)} :
       args = [oldObj |-> oldObj, newObj |-> newObj, sameRef |-> FALSE]

SpecSummary == SummaryInit /\ [][DiffNext]_vars

\* -- properties of the summaries --

Ellipsis == <<".", ".", ".">>

\* the serialized form of a value: the characters of a scalar, the JSON text
\* of a sequence or mapping
Serialized(val) ==
  CASE Kind(val) = "str" -> val.str
    [] Kind(val) = "num" -> val.num
    [] Kind(val) = "bool" -> BoolChars(val.bool)
    [] Kind(val) = "null" -> NullChars
    [] OTHER -> Stringify(val)

Shortened(text) ==
  IF Len(text) > SummaryLimit THEN SubSeq(text, 1, SummaryLimit) \o Ellipsis ELSE text

\* C28: every old and new summary of a diff entry has at most 303 characters,
\* and the summary of a value whose serialized form has more than 300
\* characters is the first 300 of them followed by '...'.
C28_SummariesBounded ==
  pc = "returned" /\ "oldObj" \in DOMAIN args =>
    /\ \A i \in 1..Len(retval) :
         /\ "old" \in DOMAIN retval[i] => Len(retval[i].old) <= SummaryLimit + 3
         /\ "new" \in DOMAIN retval[i] => Len(retval[i].new) <= SummaryLimit + 3
    /\ Kind(args.oldObj) # Kind(args.newObj) /\ Kind(args.newObj) \notin {"arr", "obj"}
         => \E i \in 1..Len(retval) :
              /\ retval[i].path = RootPath
              /\ retval[i].old = Shortened(Serialized(args.oldObj))

----------------------------------------------------------------------------
(* scripts/check-for-changes.js: the path of a route escaped in step 5 and   *)
(* read back by deriveRoute in step 8                                        *)

RoutePaths ==
  { <<"/">>, <<"/", "v">>, <<"/", "v", "/">>, <<"/", "v", "/", "a">>,
    <<"/", "v", "?", "a">>, <<"/", "v", "=", "a">>,
    <<"/", "v", "?", "a", "=", "b">>, <<"/", "v", "_", "a">>,
    <<"/", "v">> \o QMARK \o <<"a">>, <<"/", "v">> \o EQ \o <<"a">>,
    <<"/", "?", "=">> }

EscapeInit ==
  /\ LedgerEmpty
  /\ NoClassifier
  /\ NoPipeline
  /\ changedRoutes = <<>>
  /\ stdout = <<>>
  /\ pc = "escape"
  /\ retval = <<>>
  /\ \E path \in RoutePaths, other \in RoutePaths, method \in {Get, Post} :
       args = [path |-> path, other |-> other, method |-> method]

\* step 5 for two paths of the document with one method each
EscapeStep ==
  /\ pc = "escape"
  /\ retval' = [safePath |-> SafePath(args.path),
                otherSafePath |-> SafePath(args.other),
                relativePath |-> RelativePath(args.path, args.method)]
  /\ pc' = "derive"
  /\ UNCHANGED <<args, ledgerVars, analyzeVars, stdout, cacheVars, fetchVars, poolVars>>

\* step 8: const route = deriveRoute(relativePath)
DeriveStep ==
  /\ pc = "derive"
  /\ retval' = [safePath |-> retval.safePath,
                otherSafePath |-> retval.otherSafePath,
                relativePath |-> retval.relativePath,
                route |-> deriveRoute(retval.relativePath)]
  /\ pc' = "returned"
  /\ UNCHANGED <<args, ledgerVars, analyzeVars, stdout, cacheVars, fetchVars, poolVars>>

EscapeNext == EscapeStep \/ DeriveStep

SpecEscape == EscapeInit /\ [][EscapeNext]_vars

\* -- properties of the escaping --

\* C29: the route derived from the identifier of a unit names the path the
\* unit was split from, and two different paths never have the same escaped
\* form.
C29_EscapingReversible ==
  pc = "returned" /\ "other" \in DOMAIN args =>
    /\ retval.route = ToUpperCase(args.method) \o <<" ">> \o args.path
    /\ args.path # args.other => retval.safePath # retval.otherSafePath

----------------------------------------------------------------------------
(* scripts/check-for-changes.js: step 10, the body of the pull request       *)

MaxRecords == 2      \* change records collected in one run

\* the records of allChanges; note tells the records of a run apart
ChangeRecords(n) ==
  { [route |-> RouteGetA, note |-> n, change |-> change, breaking |-> breaking,
     doc_only |-> docOnly] :
      change \in {"added", "changed", "removed"}, breaking \in BOOLEAN, docOnly \in BOOLEAN }

RECURSIVE RecordLists(_)
RecordLists(len) ==
  IF len = 0 THEN {<<>>}
  ELSE LET shorter == RecordLists(len - 1)
       IN shorter \cup
          { Append(l, c) : l \in {x \in shorter : Len(x) = len - 1}, c \in ChangeRecords(len) }

\* a section of the body: its heading line and one line for each record
Section(heading, records) ==
  IF Len(records) > 0
  THEN <<[heading |-> heading]>>
         \o [i \in 1..Len(records) |-> [route |-> records[i].route, note |-> records[i].note]]
  ELSE <<>>

BuildBody(allChanges) ==
  LET breaking == SelectSeq(allChanges, LAMBDA c : c.breaking)
      features == SelectSeq(allChanges,
                            LAMBDA c : ~ c.breaking /\ c.change # "removed" /\ ~ c.doc_only)
      docFixes == SelectSeq(allChanges, LAMBDA c : c.doc_only)
  IN Section("Breaking changes", breaking)
       \o Section("New features", features)
       \o Section("Documentation fixes", docFixes)

BodyInit ==
  /\ LedgerEmpty
  /\ NoClassifier
  /\ NoPipeline
  /\ changedRoutes = <<>>
  /\ stdout = <<>>
  /\ pc = "body"
  /\ retval = <<>>
  /\ \E allChanges \in RecordLists(MaxRecords) \ {<<>>} : args = [allChanges |-> allChanges]

BodyStep ==
  /\ pc = "body"
  /\ retval' = [body |-> BuildBody(args.allChanges)]
  /\ pc' = "returned"
  /\ UNCHANGED <<args, ledgerVars, analyzeVars, stdout, cacheVars, fetchVars, poolVars>>

BodyNext == BodyStep

SpecBody == BodyInit /\ [][BodyNext]_vars

\* -- properties of the body --

\* the lines of the body that list the record
LinesOf(record) ==
  {j \in 1..Len(retval.body) :
     /\ "note" \in DOMAIN retval.body[j]
     /\ retval.body[j].note = record.note
     /\ retval.body[j].route = record.route}

\* C30: every change record is listed on exactly one line of the body,
\* whatever its breaking, doc_only and change fields are.
C30_ListedExactlyOnce ==
  pc = "returned" /\ "allChanges" \in DOMAIN args =>
    \A i \in 1..Len(args.allChanges) : Cardinality(LinesOf(args.allChanges[i])) = 1

====
